---- MODULE Spec2Model ----
(***************************************************************************)
(* webp-to-mp4: the conversion worker (conversion-worker.js) and the       *)
(* server that forks it for every upload (server.js, lines 1-340).         *)
(*                                                                         *)
(* The worker loads an animated WebP, composites every frame's patch onto  *)
(* a persistent RGBA canvas, writes one PNG snapshot per frame, derives a  *)
(* frame rate from the first frame's delay and starts ffmpeg.              *)
(*                                                                         *)
(* The canvas is modelled pixel by pixel: pixel p (0-based, row-major)     *)
(* stands for the four bytes 4p .. 4p+3 of the Buffer.  Every access of    *)
(* the source is to di+0 .. di+3 with di a multiple of 4, so a pixel is    *)
(* inside or outside the buffer as a whole.                                *)
(*                                                                         *)
(* JavaScript numbers are IEEE-754 doubles.  The blend formula divides,    *)
(* so its intermediate values are not integers; they are modelled exactly, *)
(* as fixed-point numbers with 66 fraction bits held in four limbs         *)
(* <<int, f1, f2, f3>> (value = int + f1/2^22 + f2/2^44 + f3/2^66), each   *)
(* operation rounding its exact result to 53 significant bits, ties to     *)
(* even, as the hardware does.                                             *)
(***************************************************************************)
EXTENDS Integers, Sequences, FiniteSets

VARIABLES
    pc,         \* where convert() stands
    img,        \* the loaded WebP.Image (the input file's content until loaded)
    bg,         \* const bg
    canvas,     \* let canvas: pixel index -> <<r, g, b, a>>
    idx,        \* the loop variable i
    tempDir,    \* the files written to tempDir, in the order written
    sent,       \* the progress messages sent to the parent, in order
    fps,        \* let fps
    exitCode,   \* the code the process exited with, Undefined while it runs
    frameStart, \* history: the canvas when the current frame began
    px,         \* the single-pixel harness: one source pixel over one canvas pixel
    argv,       \* process.argv.slice(2): <<inputPath, tempDir, outputPath>>
    now,        \* Date.now()
    job,        \* the server's requests: job number -> what its handler holds
    disk,       \* the file system: path -> node
    uploadRoot, \* let uploadRoot
    nm          \* the file-name harness: two frame indices and their names

\* What the worker never touches.
server == <<now, job, uploadRoot>>

vars == <<pc, img, bg, canvas, idx, tempDir, sent, fps, exitCode, frameStart, px,
          argv, now, job, disk, uploadRoot, nm>>

\* JavaScript's undefined, for a numeric property that is missing.
Undefined == -1

\* A missing array-valued property (img.anim.bgColor).
Absent == << >>

(***************************************************************************)
(* IEEE-754 double arithmetic on the values the blend formula meets.       *)
(***************************************************************************)
Base == 2^22

Zero == <<0, 0, 0, 0>>

\* Carry propagation: every fraction limb back into 0 .. Base-1.
Norm(v) ==
    LET t3 == v[4]
        t2 == v[3] + (t3 \div Base)
        t1 == v[2] + (t2 \div Base)
    IN  <<v[1] + (t1 \div Base), t1 % Base, t2 % Base, t3 % Base>>

BigAdd(x, y) == Norm(<<x[1] + y[1], x[2] + y[2], x[3] + y[3], x[4] + y[4]>>)

BigSub(x, y) == Norm(<<x[1] - y[1], x[2] - y[2], x[3] - y[3], x[4] - y[4]>>)

\* k * x for 0 <= k < 512.
BigMul(k, x) == Norm(<<k * x[1], k * x[2], k * x[3], k * x[4]>>)

BigLeq(x, y) ==
    \/ x[1] < y[1]
    \/ x[1] = y[1] /\ x[2] < y[2]
    \/ x[1] = y[1] /\ x[2] = y[2] /\ x[3] < y[3]
    \/ x[1] = y[1] /\ x[2] = y[2] /\ x[3] = y[3] /\ x[4] <= y[4]

\* A number below 2^44 units (2^-22 in value) as limbs.
Small(n) == <<0, 0, n \div Base, n % Base>>

RECURSIVE FloorLog2(_)
FloorLog2(n) == IF n <= 1 THEN 0 ELSE 1 + FloorLog2(n \div 2)

\* floor(log2(x)) for x >= 2^-22.
Exponent(x) == IF x[1] >= 1 THEN FloorLog2(x[1]) ELSE FloorLog2(x[2]) - 22

\* The double nearest to x + (a remainder below one unit, present iff sticky),
\* ties to even.  x has exponent -8 .. 16, so one ulp is 2^6 .. 2^30 units.
RoundTo(x, sticky, ulp, low, odd) ==
    IF low > ulp \div 2 \/ (low = ulp \div 2 /\ (sticky \/ odd))
    THEN BigAdd(BigSub(x, Small(low)), Small(ulp))
    ELSE BigSub(x, Small(low))

RoundAt(x, sticky, u) ==
    RoundTo(x, sticky, 2^u,
            IF u <= 22 THEN x[4] % 2^u ELSE (x[3] % 2^(u - 22)) * Base + x[4],
            IF u < 22 THEN (x[4] \div 2^u) % 2 = 1 ELSE (x[3] \div 2^(u - 22)) % 2 = 1)

Round53(x, sticky) == IF x = Zero THEN Zero ELSE RoundAt(x, sticky, Exponent(x) + 14)

\* n / 255 for an integer 0 <= n < 2^24.
FlDiv255(n) ==
    LET r0 == n % 255
        r1 == (r0 * Base) % 255
        r2 == (r1 * Base) % 255
        r3 == (r2 * Base) % 255
    IN  Round53(<<n \div 255, (r0 * Base) \div 255, (r1 * Base) \div 255,
                  (r2 * Base) \div 255>>, r3 # 0)

\* k + x for an integer k >= 0.
FlAddInt(k, x) == Round53(<<k + x[1], x[2], x[3], x[4]>>, FALSE)

\* The largest k + m <= 511 with (k + m) * y <= x, m < 2^(b+1).
RECURSIVE QuotientFrom(_, _, _, _)
QuotientFrom(x, y, k, b) ==
    IF b < 0 THEN k
    ELSE IF BigLeq(BigMul(k + 2^b, y), x) THEN QuotientFrom(x, y, k + 2^b, b - 1)
         ELSE QuotientFrom(x, y, k, b - 1)

\* The exponent of the double just below the integer j >= 1.
PredExponent(j) == IF j = 1 THEN -1 ELSE FloorLog2(j - 1)

\* (x / y) | 0 for doubles 0 <= x, 1 <= y < 512 with x / y < 511: the quotient
\* is rounded to a double and then truncated.  With k = floor(x / y), the
\* rounded quotient reaches k + 1 exactly when x / y is at or above the
\* midpoint between k + 1 and the double below it.
RoundedQuotient(x, y, k) ==
    IF BigLeq(BigSub(BigMul(k + 1, y), x),
              Small((y[1] * Base + y[2]) \div 2^(53 - PredExponent(k + 1) - 44)))
    THEN k + 1
    ELSE k

FlDivTrunc(x, y) == RoundedQuotient(x, y, QuotientFrom(x, y, 0, 8))

\* v | 0 for a double v >= 0.
ToInt32(v) == v[1]

\* v > 0
Positive(v) == v # Zero

\* The byte a Buffer keeps of the integer v.
ToUint8(v) == v % 256

(***************************************************************************)
(* One pixel of the compositing loops.  A pixel is <<r, g, b, a>>.         *)
(***************************************************************************)

\* CopyPixel that leaves the canvas alpha as it was.
CopyPixelColourOnly(src, dst) == <<src[1], src[2], src[3], dst[4]>>

\* Lines 69-72: the blend === false branch copies all four bytes.
CopyPixel(src, dst) == src

\* outA as the product of the two alphas, sa * da / 255.
OutAProduct(sa, da) == FlDiv255(sa * da)

\* Line 90: const outA = sa + da * (255 - sa) / 255
OutA(sa, da) == FlAddInt(sa, FlDiv255(da * (255 - sa)))

\* OutC with source and destination colour exchanged.
OutCSwapped(sc, dc, sa, da, outA) ==
    FlDivTrunc(FlAddInt(dc * sa, FlDiv255(sc * da * (255 - sa))), outA)

\* OutC with every division an integer division.
OutCInteger(sc, dc, sa, da, outA) ==
    (sc * sa + (dc * da * (255 - sa)) \div 255) \div (sa + (da * (255 - sa)) \div 255)

\* OutC without the division by outA.
OutCPremultiplied(sc, dc, sa, da, outA) ==
    ToInt32(FlAddInt(sc * sa, FlDiv255(dc * da * (255 - sa))))

\* Lines 94-96: the value assigned to a colour byte,
\* ((sc * sa + dc * da * (255 - sa) / 255) / outA) | 0
OutC(sc, dc, sa, da, outA) ==
    FlDivTrunc(FlAddInt(sc * sa, FlDiv255(dc * da * (255 - sa))), outA)

\* Lines 94-97: the values assigned to canvas[di + 0 .. di + 3], before the
\* Buffer keeps a byte of each.
Assigned(src, dst, outA) ==
    <<OutC(src[1], dst[1], src[4], dst[4], outA),
      OutC(src[2], dst[2], src[4], dst[4], outA),
      OutC(src[3], dst[3], src[4], dst[4], outA),
      ToInt32(outA)>>

\* Lines 89-98: the same, with outA as line 90 computes it.
Computed(src, dst) == Assigned(src, dst, OutA(src[4], dst[4]))

\* Lines 93-98: if (outA > 0) the four bytes are stored.
StoreBytes(dst, outA, v) ==
    IF Positive(outA) THEN <<ToUint8(v[1]), ToUint8(v[2]), ToUint8(v[3]), ToUint8(v[4])>>
    ELSE dst

SemiPixel(src, dst, outA) == StoreBytes(dst, outA, Assigned(src, dst, outA))

\* BlendPixel whose opaque branch leaves the canvas alpha alone.
BlendPixelKeepAlpha(src, dst) ==
    IF src[4] = 255 THEN <<src[1], src[2], src[3], dst[4]>>
    ELSE IF src[4] = 0 THEN dst
    ELSE SemiPixel(src, dst, OutA(src[4], dst[4]))

\* BlendPixel that copies a fully transparent source like an opaque one.
BlendPixelCopyTransparent(src, dst) ==
    IF src[4] = 255 \/ src[4] = 0 THEN <<src[1], src[2], src[3], src[4]>>
    ELSE SemiPixel(src, dst, OutA(src[4], dst[4]))

\* BlendPixel that copies every source pixel that is not fully transparent.
BlendPixelSourceAlpha(src, dst) ==
    IF src[4] = 0 THEN dst ELSE <<src[1], src[2], src[3], src[4]>>

\* Lines 80-99: the blend branch for one pixel.
BlendPixel(src, dst) ==
    IF src[4] = 255 THEN <<src[1], src[2], src[3], 255>>
    ELSE IF src[4] = 0 THEN dst
    ELSE SemiPixel(src, dst, OutA(src[4], dst[4]))

\* Lines 64, 75: which branch a frame takes.
WritePixel(blend, src, dst) ==
    IF blend = FALSE THEN CopyPixel(src, dst) ELSE BlendPixel(src, dst)

(***************************************************************************)
(* The inputs: the images the worker is run on.                            *)
(***************************************************************************)
MaxFrames == 2
CanvasW == 3
CanvasH == 3

White == <<255, 255, 255, 255>>

\* The pixel values a patch is filled from: opaque, half transparent, fully
\* transparent and nearly transparent.
Palette == << <<255, 0, 0, 255>>, <<0, 255, 0, 128>>, <<0, 0, 255, 0>>, <<19, 19, 19, 1>> >>

\* The buffer getFrameData returns for a w x h patch: w * h pixels, here the
\* palette laid out cyclically from position start.
PatchData(w, h, start) ==
    [k \in 0..(w * h - 1) |-> Palette[((start + k) % Len(Palette)) + 1]]

\* Patch rectangles <<x, y, width, height>> with x, y as stored in the
\* container: the whole canvas, two pixels inside it, and one that on a 3 x 3
\* canvas runs over the right edge and past the last row.
Geometries ==
    { <<Undefined, 0, CanvasW, CanvasH>>, <<0, 1, 2, 1>>, <<1, 0, 2, 4>> }

Starts == {0}

Frame(g, blend, dispose, delay, start) ==
    [x |-> g[1], y |-> g[2], width |-> g[3], height |-> g[4], blend |-> blend,
     dispose |-> dispose, delay |-> delay, rgba |-> PatchData(g[3], g[4], start)]

\* The frames of the compositing runs: every geometry, flag and fill.
CompositingFrames ==
    {Frame(g, b, d, 100, s) : g \in Geometries, b \in BOOLEAN, d \in BOOLEAN, s \in Starts}

BgColors == {Absent, <<0, 0, 255, 128>>}

\* The delays of the frame-rate runs: missing, 0, the spec's examples, a tie
\* (1000 / 16 = 62.5), the two around 1000 / d = 0.5 and a long one.
Delays == {Undefined, 0, 16, 40, 100, 2000, 2001, 3000}

TimingFrames ==
    {Frame(<<0, 1, 2, 1>>, b, b, d, 0) : b \in BOOLEAN, d \in Delays}

\* The frames a container of either kind may hold.
FramesOf(kind) == IF kind = "patches" THEN CompositingFrames ELSE TimingFrames

\* A loaded animated image of n frames.  The container is read as a stream:
\* anim.frames holds the frames decoded so far, length is img.frames.length.
Animated(kind, bgColor, n) ==
    [hasAnim |-> TRUE, width |-> CanvasW, height |-> CanvasH, kind |-> kind,
     length |-> n, anim |-> [bgColor |-> bgColor, frames |-> << >>],
     source |-> [p \in 0..(CanvasW * CanvasH - 1) |-> White]]

Static ==
    [hasAnim |-> FALSE, width |-> CanvasW, height |-> CanvasH, kind |-> "static",
     length |-> 1, anim |-> [bgColor |-> Absent, frames |-> << >>],
     source |-> [p \in 0..(CanvasW * CanvasH - 1) |-> Palette[(p % 2) + 1]]]

\* The three-frame container of the spec's end-to-end scenario, on its 4 x 4
\* canvas: frame 0 a full-canvas red overwrite, frame 1 an opaque blue 2 x 2
\* patch stored at (1, 1) that is disposed, frame 2 an opaque green 2 x 2
\* patch stored at (1, 1).  What the scenario leaves open (delays, a stored 0
\* or missing offset, frame 2's blend flag, a stated or defaulted white
\* background) is drawn from small sets.
Solid(n, colour) == [k \in 0..(n - 1) |-> colour]

ScenarioFrames(i) ==
    IF i = 0
    THEN {[x |-> o, y |-> o, width |-> 4, height |-> 4, blend |-> FALSE,
           dispose |-> FALSE, delay |-> d, rgba |-> Solid(16, <<255, 0, 0, 255>>)] :
             o \in {Undefined, 0}, d \in Delays}
    ELSE IF i = 1
    THEN {[x |-> 1, y |-> 1, width |-> 2, height |-> 2, blend |-> TRUE,
           dispose |-> TRUE, delay |-> 100, rgba |-> Solid(4, <<0, 0, 255, 255>>)]}
    ELSE {[x |-> 1, y |-> 1, width |-> 2, height |-> 2, blend |-> b,
           dispose |-> FALSE, delay |-> 100, rgba |-> Solid(4, <<0, 255, 0, 255>>)] :
             b \in BOOLEAN}

Scenario(bgColor) ==
    [hasAnim |-> TRUE, width |-> 4, height |-> 4, kind |-> "scenario",
     length |-> 3, anim |-> [bgColor |-> bgColor, frames |-> << >>],
     source |-> Solid(16, White)]

ScenarioImages == {Static, Scenario(Absent), Scenario(White)}

\* The uploads of the server's runs: a still image and short animations of
\* one disposed patch.
ServedFrames == {Frame(<<0, 1, 2, 1>>, TRUE, TRUE, 100, 0)}

ServerImages == {Static} \cup {Animated("served", Absent, n) : n \in 1..MaxFrames}

\* The still image, and long animations for the progress messages: one small
\* patch per frame, with frame counts on both sides of 50 and of 100.
ProgressLengths == {1, 2, 3, 50, 51, 52, 101}

ProgressImages == {Static} \cup {Animated("progress", Absent, n) : n \in ProgressLengths}

\* The frames the container may hold as its frame i.
Stream(kind, i) ==
    IF kind = "scenario" THEN ScenarioFrames(i)
    ELSE IF kind = "served" \/ kind = "progress" THEN ServedFrames
    ELSE FramesOf(kind)

Images == {Static} \cup {Animated("patches", c, n) : c \in BgColors, n \in 1..MaxFrames}

TimingImages == {Static} \cup {Animated("delays", Absent, n) : n \in 1..MaxFrames}

(***************************************************************************)
(* convert(): the pieces of the frame loop.                                *)
(***************************************************************************)

\* Background that falls back to transparent black.
BackgroundTransparent(image) ==
    IF image.anim.bgColor # Absent THEN image.anim.bgColor ELSE <<0, 0, 0, 0>>

\* Line 41: the background colour.
Background(image) ==
    IF image.anim.bgColor # Absent THEN image.anim.bgColor ELSE White

\* Lines 44-51: Buffer.alloc(width * height * 4), filled with bg.
NewCanvas(width, height, colour) == [p \in 0..(width * height - 1) |-> colour]

\* Lines 59-60: (fmeta.x || 0) * 2 and (fmeta.y || 0) * 2.
OrZero(v) == IF v = Undefined \/ v = 0 THEN 0 ELSE v

\* X0 without the doubling.
X0Stored(fmeta) == OrZero(fmeta.x)

X0(fmeta) == OrZero(fmeta.x) * 2

\* Y0 without the doubling.
Y0Stored(fmeta) == OrZero(fmeta.y)

Y0(fmeta) == OrZero(fmeta.y) * 2

\* Lines 68, 79: di / 4, the canvas pixel that patch pixel k = y * fw + x is
\* written to.
Dest(fmeta, width, k) ==
    (Y0(fmeta) + (k \div fmeta.width)) * width + (X0(fmeta) + (k % fmeta.width))

\* Store on an array that grows to hold the index assigned.
StoreGrowing(c, p, v) == [q \in DOMAIN c \cup {p} |-> IF q = p THEN v ELSE c[q]]

\* An assignment to canvas[4p + c]: a Buffer ignores an index past its end, and
\* reads undefined there, which makes outA NaN and skips the blend's write.
Store(c, p, v) == IF p \in DOMAIN c THEN [c EXCEPT ![p] = v] ELSE c

\* Lines 64-102: the two nested loops, patch pixels k = 0 .. fw * fh - 1 in
\* the order the loops visit them.
RECURSIVE CompositeFrom(_, _, _, _)
CompositeFrom(c, fmeta, width, k) ==
    IF k >= fmeta.width * fmeta.height THEN c
    ELSE LET di == Dest(fmeta, width, k)
         IN  CompositeFrom(
                 IF di \in DOMAIN c
                 THEN Store(c, di, WritePixel(fmeta.blend, fmeta.rgba[k], c[di]))
                 ELSE c,
                 fmeta, width, k + 1)

CompositeFrame(c, fmeta, width) == CompositeFrom(c, fmeta, width, 0)

\* Lines 111-120: the dispose loops.
RECURSIVE ClearFrom(_, _, _, _, _)
ClearFrom(c, fmeta, width, colour, k) ==
    IF k >= fmeta.width * fmeta.height THEN c
    ELSE ClearFrom(Store(c, Dest(fmeta, width, k), colour), fmeta, width, colour, k + 1)

\* DisposeFrame that clears the whole canvas.
DisposeFrameWholeCanvas(c, fmeta, width, colour) ==
    IF fmeta.dispose = TRUE THEN [p \in DOMAIN c |-> colour] ELSE c

\* DisposeFrame that clears nothing.
DisposeFrameNever(c, fmeta, width, colour) == c

\* DisposeFrame that clears whatever the flag says.
DisposeFrameAlways(c, fmeta, width, colour) == ClearFrom(c, fmeta, width, colour, 0)

\* Lines 110-121: if (fmeta.dispose === true) clear the patch's region.
DisposeFrame(c, fmeta, width, colour) ==
    IF fmeta.dispose = TRUE THEN ClearFrom(c, fmeta, width, colour, 0) ELSE c

\* FrameName that counts the frames from one.
FrameNameFromOne(i) == <<0, 0, 0, 0, i + 1>>

\* Line 104: i.toString().padStart(5, '0'), as a sequence of decimal digits.
RECURSIVE ToString(_)
ToString(n) == IF n < 10 THEN <<n>> ELSE Append(ToString(n \div 10), n % 10)

RECURSIVE PadStart(_, _, _)
PadStart(str, len, fill) ==
    IF Len(str) >= len THEN str ELSE PadStart(<<fill>> \o str, len, fill)

FrameName(i) == PadStart(ToString(i), 5, 0)

\* PngData taken after the frame's dispose clear.
PngDataDisposed(c) == DisposeFrame(c, img.anim.frames[idx + 1], img.width, bg)

\* Line 106: png.data = Buffer.from(canvas), a copy of the canvas.
PngData(c) == c

\* Reported without the last frame.
ReportedEveryFiftieth(i, n) == i % 50 = 0

\* Line 123: whether frame i of n is reported.
Reported(i, n) == i % 50 = 0 \/ i = n - 1

\* Line 124: ((i + 1) / n * 100).toFixed(0)
Percent(i, n) == ((i + 1) * 200 + n) \div (2 * n)

\* Lines 131-135: the frame rate.  Math.round(1000 / d) rounds halves up; the
\* quotient is a half only when it is exactly representable, and is
\* otherwise at least 1 / (2d) away from one, so it is floor((2000 + d) / 2d).
OrDefault(v, dflt) == IF v = Undefined \/ v = 0 THEN dflt ELSE v

\* FrameRate from the mean delay of all frames.
RECURSIVE SumDelays(_, _)
SumDelays(frames, n) ==
    IF n = 0 THEN 0 ELSE SumDelays(frames, n - 1) + OrDefault(frames[n].delay, 100)

FrameRateAverage(image) ==
    IF image.hasAnim /\ Len(image.anim.frames) > 0
    THEN (2000 * Len(image.anim.frames)
              + SumDelays(image.anim.frames, Len(image.anim.frames)))
         \div (2 * SumDelays(image.anim.frames, Len(image.anim.frames)))
    ELSE 10

RoundedRate(avgDelay) == (2000 + avgDelay) \div (2 * avgDelay)

FrameRate(image) ==
    IF image.hasAnim /\ Len(image.anim.frames) > 0
    THEN RoundedRate(OrDefault(image.anim.frames[1].delay, 100))
    ELSE 10

(***************************************************************************)
(* Paths and the file system.                                              *)
(*                                                                         *)
(* A path is the sequence of its components below the working directory;   *)
(* a component is <<prefix, number, extension>>, the three parts the code  *)
(* builds its names from.  None of the code's paths holds "." or "..", so  *)
(* path.resolve and path.normalize leave the components as they are.       *)
(***************************************************************************)
MaxJobs == 2

Jobs == 1..MaxJobs

Uploads == << <<"uploads", 0, "">> >>

Outputs == << <<"outputs", 0, "">> >>

\* A directory that is neither of the two, with a file in it.
Elsewhere == << <<"elsewhere", 0, "">> >>

\* path.join(dir, name)
Join(dir, name) == Append(dir, name)

\* server.js line 41: Date.now() + path.extname(file.originalname)
UploadName(t) == <<"", t, ".webp">>

\* server.js line 125: `temp-${Date.now()}`
TempName(t) == <<"temp-", t, "">>

\* server.js line 123: `converted-${Date.now()}.mp4`
OutputName(t) == <<"converted-", t, ".mp4">>

Dir == [type |-> "dir", target |-> << >>]

File == [type |-> "file", target |-> << >>]

Link(target) == [type |-> "link", target |-> target]

Put(d, p, node) == [q \in DOMAIN d \cup {p} |-> IF q = p THEN node ELSE d[q]]

Remove(d, gone) == [q \in DOMAIN d \ gone |-> d[q]]

\* fs.realpathSync: the components are walked from the working directory and
\* every symbolic link met is replaced by its target; a missing component
\* (ENOENT) or a chain of more than `hops` links (ELOOP) throws.
RECURSIVE Walk(_, _, _, _)
Walk(d, seen, rest, hops) ==
    IF rest = << >> THEN [ok |-> TRUE, path |-> seen]
    ELSE IF Append(seen, Head(rest)) \notin DOMAIN d THEN [ok |-> FALSE, path |-> << >>]
    ELSE IF d[Append(seen, Head(rest))].type # "link"
         THEN Walk(d, Append(seen, Head(rest)), Tail(rest), hops)
    ELSE IF hops = 0 THEN [ok |-> FALSE, path |-> << >>]
    ELSE Walk(d, << >>, d[Append(seen, Head(rest))].target \o Tail(rest), hops - 1)

RealPath(d, p) == Walk(d, << >>, p, 2)

\* fs.existsSync: the path can be followed to an existing node.
ExistsSync(d, p) == p # << >> /\ RealPath(d, p).ok

\* resolved.startsWith(allowedPath + path.sep)
StartsWithDir(resolved, allowedPath) ==
    /\ Len(resolved) > Len(allowedPath)
    /\ SubSeq(resolved, 1, Len(allowedPath)) = allowedPath

\* A file written through path p: a link is followed, a missing file is made.
WriteFile(d, p) ==
    IF p \notin DOMAIN d THEN Put(d, p, File)
    ELSE IF d[p].type = "link" /\ d[p].target \notin DOMAIN d THEN Put(d, d[p].target, File)
    ELSE d

\* The three arguments the server forks the worker with, and the files they
\* name, for the runs of the worker on its own.
WorkerArgv == <<Join(Uploads, UploadName(0)), Join(Uploads, TempName(0)),
                Join(Outputs, OutputName(0))>>

Argvs == {WorkerArgv, <<WorkerArgv[1], WorkerArgv[2], << >> >>}

WorkerDisk ==
    [p \in {Uploads, Outputs, WorkerArgv[1], WorkerArgv[2]} |->
        IF p = WorkerArgv[1] THEN File ELSE Dir]

\* The file of an upload as multer hands it to fileFilter: its MIME type, its
\* original name and whether it is larger than MAX_FILE_SIZE.  A name is the
\* sequence of its parts, the first one the name up to its first inner dot,
\* every further one a dot and what follows it: a.webp.png is
\* <<"a", ".webp", ".png">> and the dot file .webp is <<".webp">>.
UploadedFile(mimetype, originalname, big) ==
    [mimetype |-> mimetype, originalname |-> originalname, big |-> big]

NoFile == UploadedFile("", << >>, FALSE)

MimeTypes == {"image/webp", "image/png"}

OriginalNames ==
    { <<"a", ".webp">>, <<"a", ".WEBP">>, <<"a", ".WebP">>, <<"a", ".png">>, <<"a">>,
      <<".webp">>, <<"a", ".webp", ".png">>, <<"a", ".png", ".webp">> }

UploadedFiles ==
    {UploadedFile(t, n, b) : t \in MimeTypes, n \in OriginalNames, b \in BOOLEAN}

\* The uploads of the runs that follow a request through its conversion.
ServedFiles ==
    {UploadedFile("image/webp", <<"a", ".webp">>, FALSE),
     UploadedFile("image/png", <<"a", ".png">>, FALSE)}

\* path.extname: from the last dot of the name to its end, and empty when
\* there is no dot or the only one begins the name.
Extname(name) == IF Len(name) >= 2 THEN name[Len(name)] ELSE ""

\* String.prototype.toLowerCase on the extensions above.
ToLowerCase(s) ==
    IF s \in {".WEBP", ".WebP"} THEN ".webp"
    ELSE IF s \in {".PNG", ".Png"} THEN ".png"
    ELSE s

\* fileFilter that is content with either of the two tests.
FileFilterEither(file) ==
    \/ file.mimetype \in {"image/webp"}
    \/ ToLowerCase(Extname(file.originalname)) \in {".webp"}

\* server.js lines 46-56: fileFilter.
FileFilter(file) ==
    /\ file.mimetype \in {"image/webp"}
    /\ ToLowerCase(Extname(file.originalname)) \in {".webp"}

\* server.js line 41: Date.now() + path.extname(file.originalname)
StoredName(t, file) == <<"", t, Extname(file.originalname)>>

NewJob ==
    [stage |-> "new", file |-> << >>, inputPathAbs |-> << >>, tempDir |-> << >>,
     outputPath |-> << >>, res |-> << >>, retries |-> 0, attempts |-> 0, delay |-> 0,
     log |-> {}, upload |-> NoFile, verdict |-> "", events |-> << >>, cleanups |-> 0, calls |-> << >>]

\* No request: the worker run on its own.
NoJob == [NewJob EXCEPT !.stage = "none"]

\* The request a forked worker belongs to, as its parent holds it.
ForkedJob ==
    [NewJob EXCEPT !.stage = "running", !.inputPathAbs = WorkerArgv[1],
                   !.tempDir = WorkerArgv[2], !.outputPath = WorkerArgv[3]]

NoNames == [i |-> 0, j |-> 0, a |-> << >>, b |-> << >>, done |-> FALSE]

(***************************************************************************)
(* convert(): the steps.                                                   *)
(***************************************************************************)
NoPixel == [src |-> White, dst |-> White, blend |-> FALSE, out |-> White, done |-> FALSE]

InitOn(images) ==
    /\ img \in images
    /\ pc = "start"
    /\ argv \in Argvs
    /\ now = 0
    /\ job = [j \in Jobs |-> NoJob]
    /\ disk = WorkerDisk
    /\ uploadRoot = Uploads
    /\ nm = NoNames
    /\ bg = White
    /\ canvas = << >>
    /\ idx = 0
    /\ tempDir = << >>
    /\ sent = << >>
    /\ fps = 10
    /\ exitCode = Undefined
    /\ frameStart = << >>
    /\ px = NoPixel

Init == InitOn(Images)

InitScenario == InitOn(ScenarioImages)

InitTiming == InitOn(TimingImages)

\* The worker on a long animation, forked or started by hand.
InitProgress ==
    /\ img \in ProgressImages
    /\ pc = "start"
    /\ argv = WorkerArgv
    /\ now = 0
    /\ job \in {[j \in Jobs |-> NoJob],
                [j \in Jobs |-> IF j = 1 THEN ForkedJob ELSE NoJob]}
    /\ disk = WorkerDisk
    /\ uploadRoot = Uploads
    /\ nm = NoNames
    /\ bg = White
    /\ canvas = << >>
    /\ idx = 0
    /\ tempDir = << >>
    /\ sent = << >>
    /\ fps = 10
    /\ exitCode = Undefined
    /\ frameStart = << >>
    /\ px = NoPixel

\* img.frames.length
NumFrames == img.length

\* Lines 12-17 and 168: the three arguments are there, or the process exits
\* with code 1 before convert() is called.
CheckArguments ==
    /\ pc = "start"
    /\ IF \E k \in 1..3 : argv[k] = << >>
       THEN pc' = "exited" /\ exitCode' = 1
       ELSE pc' = "load" /\ exitCode' = exitCode
    /\ UNCHANGED <<server, argv, disk, nm, img, bg, canvas, idx, tempDir, sent, fps, frameStart, px>>

\* Catch that exits with code 0.
CatchExitsZero ==
    /\ pc' = "exited"
    /\ exitCode' = 0
    /\ UNCHANGED <<server, argv, disk, nm, img, bg, canvas, idx, tempDir, sent, fps, frameStart, px>>

\* Lines 162-165: the catch block.
Catch ==
    /\ pc' = "exited"
    /\ exitCode' = 1
    /\ UNCHANGED <<server, argv, disk, nm, img, bg, canvas, idx, tempDir, sent, fps, frameStart, px>>

\* Lines 27-31: initLib and img.load succeed.
Load ==
    /\ pc = "load"
    /\ pc' = IF img.hasAnim THEN "createCanvas" ELSE "copyStatic"
    /\ UNCHANGED <<server, argv, disk, nm, img, bg, canvas, idx, tempDir, sent, fps, exitCode, frameStart, px>>

\* Lines 27-31: initLib or img.load throws.
LoadFail == pc = "load" /\ Catch

\* CopyStatic that goes on to the frame loop.
CopyStaticDecoded ==
    /\ pc = "copyStatic"
    /\ tempDir' = Append(tempDir, [name |-> FrameName(0), data |-> img.source])
    /\ pc' = "createCanvas"
    /\ UNCHANGED <<server, argv, disk, nm, img, bg, canvas, idx, sent, fps, exitCode, frameStart, px>>

\* Lines 34-36: a static image is copied as frame_00000.png.
CopyStatic ==
    /\ pc = "copyStatic"
    /\ tempDir' = Append(tempDir, [name |-> FrameName(0), data |-> img.source])
    /\ pc' = "fps"
    /\ UNCHANGED <<server, argv, disk, nm, img, bg, canvas, idx, sent, fps, exitCode, frameStart, px>>

\* Lines 38-55: the background colour, the canvas, i = 0.
CreateCanvas ==
    /\ pc = "createCanvas"
    /\ bg' = Background(img)
    /\ canvas' = NewCanvas(img.width, img.height, Background(img))
    /\ frameStart' = NewCanvas(img.width, img.height, Background(img))
    /\ idx' = 0
    /\ pc' = IF 0 < NumFrames THEN "getFrameData" ELSE "fps"
    /\ UNCHANGED <<server, argv, disk, nm, img, tempDir, sent, fps, exitCode, px>>

\* Lines 56-57: fmeta = img.anim.frames[i] and await img.getFrameData(i):
\* frame i is decoded.
GetFrameData ==
    /\ pc = "getFrameData"
    /\ \E fmeta \in Stream(img.kind, idx) :
          img' = [img EXCEPT !.anim.frames = Append(@, fmeta)]
    /\ frameStart' = canvas
    /\ pc' = "composite"
    /\ UNCHANGED <<server, argv, disk, nm, bg, canvas, idx, tempDir, sent, fps, exitCode, px>>

\* Line 57: getFrameData throws.
GetFrameDataFail == pc = "getFrameData" /\ Catch

\* Lines 59-102: the patch is written onto the canvas.
Composite ==
    /\ pc = "composite"
    /\ canvas' = CompositeFrame(canvas, img.anim.frames[idx + 1], img.width)
    /\ pc' = "writeSnapshot"
    /\ UNCHANGED <<server, argv, disk, nm, img, bg, idx, tempDir, sent, fps, exitCode, frameStart, px>>

\* WriteSnapshot that does not wait for the stream's 'finish': the loop goes
\* on with the file not yet there.
WriteSnapshotNotAwaited ==
    /\ pc = "writeSnapshot"
    /\ pc' = "dispose"
    /\ UNCHANGED <<server, argv, disk, nm, img, bg, canvas, idx, tempDir, sent, fps, exitCode, frameStart, px>>

\* Lines 104-108: the canvas is copied into a PNG and the file is written.
WriteSnapshot ==
    /\ pc = "writeSnapshot"
    /\ tempDir' = Append(tempDir, [name |-> FrameName(idx), data |-> PngData(canvas)])
    /\ pc' = "dispose"
    /\ UNCHANGED <<server, argv, disk, nm, img, bg, canvas, idx, sent, fps, exitCode, frameStart, px>>

\* WriteSnapshotFail that swallows the error and goes on.
WriteSnapshotFailSkips ==
    /\ pc = "writeSnapshot"
    /\ pc' = "dispose"
    /\ UNCHANGED <<server, argv, disk, nm, img, bg, canvas, idx, tempDir, sent, fps, exitCode, frameStart, px>>

\* Line 108: the write stream reports an error.
WriteSnapshotFail == pc = "writeSnapshot" /\ Catch

\* Dispose on a canvas that the snapshot just taken shares: the clear shows
\* in the snapshot.
DisposeThroughSnapshot ==
    /\ pc = "dispose"
    /\ canvas' = DisposeFrame(canvas, img.anim.frames[idx + 1], img.width, bg)
    /\ tempDir' = [tempDir EXCEPT ![Len(tempDir)].data = canvas']
    /\ pc' = "progress"
    /\ UNCHANGED <<server, argv, disk, nm, img, bg, idx, sent, fps, exitCode, frameStart, px>>

\* Lines 110-121: the dispose clear.
Dispose ==
    /\ pc = "dispose"
    /\ canvas' = DisposeFrame(canvas, img.anim.frames[idx + 1], img.width, bg)
    /\ pc' = "progress"
    /\ UNCHANGED <<server, argv, disk, nm, img, bg, idx, tempDir, sent, fps, exitCode, frameStart, px>>

\* Line 125: process.send is there when the worker was forked, with its IPC
\* channel, and undefined when it was started by hand.
ProcessSend == job[1].stage # "none"

\* Lines 123-127 and 55: the progress message, i++, the loop test.
Progress ==
    /\ pc = "progress"
    /\ sent' = IF Reported(idx, NumFrames) /\ ProcessSend
               THEN Append(sent, [value |-> Percent(idx, NumFrames),
                                  frame |-> idx + 1, total |-> NumFrames])
               ELSE sent
    /\ idx' = idx + 1
    /\ pc' = IF idx + 1 < NumFrames THEN "getFrameData" ELSE "fps"
    /\ UNCHANGED <<server, argv, disk, nm, img, bg, canvas, tempDir, fps, exitCode, frameStart, px>>

\* Lines 128-160: canvas = null, the frame rate is computed and ffmpeg is
\* started.  (img = null drops the worker's reference; img stays here as the
\* input the run was given.)
RunFfmpeg ==
    /\ pc = "fps"
    /\ canvas' = << >>
    /\ fps' = FrameRate(img)
    /\ pc' = "ffmpeg"
    /\ UNCHANGED <<server, argv, disk, nm, img, bg, idx, tempDir, sent, exitCode, frameStart, px>>

\* Lines 151-154: ffmpeg's 'end'; the output file is there.
FfmpegEnd ==
    /\ pc = "ffmpeg"
    /\ pc' = "exited"
    /\ exitCode' = 0
    /\ disk' = WriteFile(disk, argv[3])
    /\ UNCHANGED <<server, argv, nm, img, bg, canvas, idx, tempDir, sent, fps, frameStart, px>>

\* Lines 155-159: ffmpeg's 'error'; it may have left a part of the output.
FfmpegError ==
    /\ pc = "ffmpeg"
    /\ pc' = "exited"
    /\ exitCode' = 1
    /\ \E partial \in BOOLEAN : disk' = IF partial THEN WriteFile(disk, argv[3]) ELSE disk
    /\ UNCHANGED <<server, argv, nm, img, bg, canvas, idx, tempDir, sent, fps, frameStart, px>>

(***************************************************************************)
(* One source pixel written over one canvas pixel: the body of the loops   *)
(* of lines 64-102 on its own, for the claims about the pixel arithmetic.  *)
(***************************************************************************)
Alphas == 0..255

DstAlphas == {0, 1, 128, 254, 255}

Colours == {<<255, 0, 0>>, <<0, 0, 255>>, <<19, 128, 255>>}

Pixel(colour, alpha) == <<colour[1], colour[2], colour[3], alpha>>

InitPixel ==
    /\ px \in {[src |-> Pixel(sc, sa), dst |-> Pixel(dc, da), blend |-> b,
                out |-> Pixel(dc, da), done |-> FALSE] :
                  sc \in Colours, sa \in Alphas, dc \in Colours, da \in DstAlphas,
                  b \in BOOLEAN}
    /\ pc = "pixel"
    /\ argv = WorkerArgv
    /\ now = 0
    /\ job = [j \in Jobs |-> NoJob]
    /\ disk = WorkerDisk
    /\ uploadRoot = Uploads
    /\ nm = NoNames
    /\ img = Static
    /\ bg = White
    /\ canvas = << >>
    /\ idx = 0
    /\ tempDir = << >>
    /\ sent = << >>
    /\ fps = 10
    /\ exitCode = Undefined
    /\ frameStart = << >>

\* Every source alpha over every canvas alpha, the colours fixed.
InitAlpha ==
    /\ px \in {[src |-> Pixel(<<255, 0, 0>>, sa), dst |-> Pixel(<<19, 128, 255>>, da),
                blend |-> TRUE, out |-> Pixel(<<19, 128, 255>>, da), done |-> FALSE] :
                  sa \in Alphas, da \in Alphas}
    /\ pc = "pixel"
    /\ argv = WorkerArgv
    /\ now = 0
    /\ job = [j \in Jobs |-> NoJob]
    /\ disk = WorkerDisk
    /\ uploadRoot = Uploads
    /\ nm = NoNames
    /\ img = Static
    /\ bg = White
    /\ canvas = << >>
    /\ idx = 0
    /\ tempDir = << >>
    /\ sent = << >>
    /\ fps = 10
    /\ exitCode = Undefined
    /\ frameStart = << >>

\* Lines 67-99: one iteration of the inner loop.
PixelStep ==
    /\ pc = "pixel"
    /\ ~px.done
    /\ px' = [px EXCEPT !.out = WritePixel(px.blend, px.src, px.dst), !.done = TRUE]
    /\ UNCHANGED <<server, argv, disk, nm, pc, img, bg, canvas, idx, tempDir, sent, fps, exitCode, frameStart>>

(***************************************************************************)
(* server.js (lines 1-340): the file system calls the server makes.        *)
(***************************************************************************)

\* isPathSafe of the earlier server (lines 729-743): path.resolve alone, no
\* symbolic link followed.
IsPathSafeLexical(d, filePath, allowedDir) ==
    /\ filePath # << >>
    /\ filePath = allowedDir \/ StartsWithDir(filePath, allowedDir)

\* Lines 252-267: isPathSafe.  realpathSync of either path may throw, which
\* the catch turns into false.
IsPathSafe(d, filePath, allowedDir) ==
    IF filePath = << >> THEN FALSE
    ELSE IF ~RealPath(d, filePath).ok \/ ~RealPath(d, allowedDir).ok THEN FALSE
    ELSE \/ RealPath(d, filePath).path = RealPath(d, allowedDir).path
         \/ StartsWithDir(RealPath(d, filePath).path, RealPath(d, allowedDir).path)

\* The directory entry path p names: its parent is followed, its last
\* component is not (unlink and rm remove a link, never what it points to).
EntryKey(d, p) == Append(RealPath(d, SubSeq(p, 1, Len(p) - 1)).path, p[Len(p)])

\* fs.unlinkSync(p), and fs.rmSync(p, {recursive: true, force: true}) which
\* takes what is below p as well.
Delete(d, p, recursive) ==
    Remove(d, {q \in DOMAIN d :
                  q = EntryKey(d, p) \/ (recursive /\ StartsWithDir(q, EntryKey(d, p)))})

\* fs.readdirSync(dir): the names in a directory.
ReaddirSync(d, dir) ==
    {q[Len(q)] : q \in {r \in DOMAIN d : /\ Len(r) = Len(RealPath(d, dir).path) + 1
                                         /\ StartsWithDir(r, RealPath(d, dir).path)}}

\* What a removal may come to: done, refused with EBUSY, or another error.
Outcomes == {"ok", "EBUSY", "error"}

\* unlinkSync cannot remove a directory.
Removable(d, p, recursive) ==
    recursive \/ (EntryKey(d, p) \in DOMAIN d /\ d[EntryKey(d, p)].type # "dir")

\* retries - 1 that does not count down.
RetriesKept(retries) == retries

\* Lines 289, 309, 329: the retries handed to the next call.
RetriesLeft(retries) == retries - 1

\* Lines 279-296, 299-316, 319-336: one of the three blocks of
\* cleanupWithRetry, on path p with outcome o of its removal.  The result
\* is the disk after it, what it logged, and whether it scheduled a retry
\* and returned.
CleanupBlock(d, p, allowedDir, what, o, retries, recursive) ==
    IF p = << >> THEN [disk |-> d, log |-> {}, retry |-> FALSE]
    ELSE IF ~IsPathSafe(d, p, allowedDir)
         THEN [disk |-> d, log |-> {<<"rejected", what>>}, retry |-> FALSE]
    ELSE IF ~ExistsSync(d, p) THEN [disk |-> d, log |-> {}, retry |-> FALSE]
    ELSE IF o = "ok" /\ Removable(d, p, recursive)
         THEN [disk |-> Delete(d, p, recursive), log |-> {<<"cleaned", what>>},
               retry |-> FALSE]
    ELSE IF o = "EBUSY" /\ retries > 0
         THEN [disk |-> d, log |-> {<<"busy", what>>}, retry |-> TRUE]
    ELSE [disk |-> d, log |-> {<<"kept", what>>}, retry |-> FALSE]

\* Then in which a block that could not remove its path ends the call too.
ThenUnlessFailed(before, after) ==
    IF before.retry \/ (\E l \in before.log : l[1] = "kept") THEN before
    ELSE [disk |-> after.disk, log |-> before.log \cup after.log, retry |-> after.retry]

\* The blocks in their order: a block that returned ends the call.
Then(before, after) ==
    IF before.retry THEN before
    ELSE [disk |-> after.disk, log |-> before.log \cup after.log, retry |-> after.retry]

\* Lines 276-340: one call of cleanupWithRetry for the request j holds.
\* Each block works on the disk the block before it left.
CleanupCall(d, j, oi, ot, oo) ==
    CHOOSE call \in
        {Then(temp, CleanupBlock(temp.disk, j.outputPath, Outputs, "output", oo,
                                 j.retries, FALSE)) :
           temp \in {Then(input, CleanupBlock(input.disk, j.tempDir, Uploads, "temp", ot,
                                              j.retries, TRUE)) :
                       input \in {CleanupBlock(d, j.inputPathAbs, uploadRoot, "input", oi,
                                               j.retries, FALSE)}}} : TRUE

\* The responses the handler sends.
Status(code) == [status |-> code, download |-> FALSE]

Download == [status |-> 200, download |-> TRUE]

(***************************************************************************)
(* server.js: start-up, the /convert handler, the worker's events and the   *)
(* cleanup timer, for the request numbered j.                              *)
(***************************************************************************)
workerVars == <<img, bg, canvas, idx, sent, fps, exitCode, frameStart, px>>

\* Lines 95-99: the outputs directory is made if it is not there.
EnsureOutputs(d) == IF ExistsSync(d, Outputs) THEN d ELSE Put(d, Outputs, Dir)

\* Lines 194-213: the temp- folders of uploads that pass isPathSafe and whose
\* rmSync does not throw.
StaleTemps(d, failing) ==
    IF ~ExistsSync(d, Uploads) THEN {}
    ELSE {Join(Uploads, e) : e \in {f \in ReaddirSync(d, Uploads) :
                                      /\ f[1] = "temp-"
                                      /\ IsPathSafe(d, Join(Uploads, f), Uploads)
                                      /\ f \notin failing}}

\* Lines 215-231: the entries of outputs that pass isPathSafe and whose
\* unlinkSync does not throw.
StaleOutputs(d, failing) ==
    IF ~ExistsSync(d, Outputs) THEN {}
    ELSE {Join(Outputs, e) : e \in {f \in ReaddirSync(d, Outputs) :
                                      /\ IsPathSafe(d, Join(Outputs, f), Outputs)
                                      /\ Removable(d, Join(Outputs, f), FALSE)
                                      /\ f \notin failing}}

DeleteAll(d, paths, recursive) ==
    Remove(d, {q \in DOMAIN d : \E p \in paths :
                  q = EntryKey(d, p) \/ (recursive /\ StartsWithDir(q, EntryKey(d, p)))})

\* Lines 13-19, 95-99 and 194-231: what the module does when it is loaded.
Startup ==
    /\ uploadRoot = << >>
    /\ uploadRoot' = IF RealPath(disk, Uploads).ok THEN RealPath(disk, Uploads).path
                     ELSE Uploads
    /\ \E failing \in SUBSET (ReaddirSync(disk, Uploads) \cup ReaddirSync(disk, Outputs)) :
          disk' = DeleteAll(DeleteAll(EnsureOutputs(disk),
                                      StaleTemps(EnsureOutputs(disk), failing), TRUE),
                            StaleOutputs(EnsureOutputs(disk), failing), FALSE)
    /\ UNCHANGED <<pc, argv, tempDir, now, job, nm, workerVars>>

\* Lines 269-274: cleanup() sets the timer of the first call.  cleanups is
\* history: the calls of cleanup() for the request.
Cleanup(j) ==
    [j EXCEPT !.stage = "timer", !.retries = 3, !.delay = 100, !.cleanups = @ + 1]

\* History: the events of the worker whose listeners have run.
Event(j, e) == [j EXCEPT !.events = Append(@, e)]

Reply(j, response) == [j EXCEPT !.res = Append(@, response)]

\* Lines 32-43: the uploads directory is made if it is not there.
EnsureUploads(d) == IF ExistsSync(d, Uploads) THEN d ELSE Put(d, Uploads, Dir)

\* Lines 32-64 and 101: upload.single('webpFile') on a request that carries a
\* file.  multer asks fileFilter first; a file it refuses is not stored and
\* the error goes to the error middleware (lines 177-192), which answers
\* 400, and the handler does not run.  An accepted file is stored as
\* uploads/<Date.now()><ext>; one that exceeds the size limit is removed
\* again and answered with 400 as well.  verdict and upload are history:
\* what fileFilter said, and of which file.
Upload(j, file) ==
    /\ uploadRoot # << >>
    /\ job[j].stage = "new"
    /\ IF ~FileFilter(file)
       THEN /\ disk' = disk
            /\ job' = [job EXCEPT ![j] =
                  [Reply(@, Status(400)) EXCEPT !.stage = "done", !.upload = file,
                                                !.verdict = "rejected"]]
       ELSE IF file.big
       THEN /\ disk' = EnsureUploads(disk)
            /\ job' = [job EXCEPT ![j] =
                  [Reply(@, Status(400)) EXCEPT !.stage = "done", !.upload = file,
                                                !.verdict = "accepted"]]
       ELSE /\ disk' = Put(EnsureUploads(disk), Join(Uploads, StoredName(now, file)), File)
            /\ job' = [job EXCEPT ![j].stage = "uploaded",
                                  ![j].file = Join(Uploads, StoredName(now, file)),
                                  ![j].upload = file,
                                  ![j].verdict = "accepted"]

\* Lines 102-175: the handler of POST /convert.  It answers 400 without a
\* file or when the upload cannot be resolved, 403 when it resolves outside
\* uploadRoot; otherwise it names the output and the temp directory after
\* the clock, makes the directory and forks the worker.  mkdirSync or fork
\* may throw (lines 169-174), and the fork may fail later, with an 'error'
\* event and no 'exit'.
Convert(j) ==
    /\ uploadRoot # << >>
    /\ job[j].stage \in {"new", "uploaded"}
    /\ IF job[j].stage = "new" \/ ~RealPath(disk, job[j].file).ok
       THEN /\ job' = [job EXCEPT ![j] = [Reply(@, Status(400)) EXCEPT !.stage = "done"]]
            /\ disk' = disk
       ELSE IF ~IsPathSafe(disk, RealPath(disk, job[j].file).path, uploadRoot)
       THEN /\ job' = [job EXCEPT ![j] = [Reply(@, Status(403)) EXCEPT !.stage = "done"]]
            /\ disk' = disk
       ELSE \E outcome \in {"forked", "throws", "spawnError"} :
            /\ disk' = IF outcome = "throws"
                          \/ ExistsSync(disk, Join(Uploads, TempName(now)))
                       THEN disk
                       ELSE Put(disk, EntryKey(disk, Join(Uploads, TempName(now))), Dir)
            /\ job' = [job EXCEPT ![j] =
                  IF outcome = "throws"
                  THEN Cleanup(Reply([@ EXCEPT
                           !.inputPathAbs = RealPath(disk, job[j].file).path,
                           !.outputPath = Join(Outputs, OutputName(now)),
                           !.tempDir = Join(Uploads, TempName(now))], Status(500)))
                  ELSE [@ EXCEPT
                           !.inputPathAbs = RealPath(disk, job[j].file).path,
                           !.outputPath = Join(Outputs, OutputName(now)),
                           !.tempDir = Join(Uploads, TempName(now)),
                           !.stage = IF outcome = "forked" THEN "running" ELSE "spawning"]]

\* OnExit that never cleans up after a failed worker.
OnExitKeeps(j, code) ==
    /\ job[j].stage = "running"
    /\ job' = [job EXCEPT ![j] =
                  IF code = 0 THEN [Reply(@, Download) EXCEPT !.stage = "sending"]
                  ELSE [Reply(@, Status(500)) EXCEPT !.stage = "done"]]

\* OnExit that offers the download whatever the code.
OnExitDownloads(j, code) ==
    /\ job[j].stage = "running"
    /\ job' = [job EXCEPT ![j] = [Reply(@, Download) EXCEPT !.stage = "sending"]]

\* OnExit that calls cleanup next to res.download, not in its callback.
OnExitCleansAtOnce(j, code) ==
    /\ job[j].stage = "running"
    /\ job' = [job EXCEPT ![j] =
                  IF code = 0 THEN Cleanup(Reply(@, Download))
                  ELSE Cleanup(Reply(@, Status(500)))]

\* Lines 144-161: worker.on('exit').
OnExit(j, code) ==
    /\ job[j].stage = "running"
    /\ job' = [job EXCEPT ![j] =
                  IF code = 0 THEN [Reply(Event(@, "exit"), Download) EXCEPT !.stage = "sending"]
                  ELSE Cleanup(Reply(Event(@, "exit"), Status(500)))]

\* Lines 163-167: worker.on('error').
OnError(j) ==
    /\ job[j].stage = "spawning"
    /\ job' = [job EXCEPT ![j] = Cleanup(Reply(Event(@, "error"), Status(500)))]

\* Lines 144-161 once more, for a worker whose 'error' listener has run:
\* nothing tells the 'exit' listener that the request was answered, and
\* child_process leaves open whether 'exit' follows 'error'.  With code 0
\* it calls res.download on the answered response; the file cannot be sent,
\* the callback gets the error, logs it and calls cleanup() (lines 151-154),
\* whose timer is taken here as replacing the one that may be pending.
\* With another code res.status(500).send throws, the headers being sent,
\* before line 159 is reached.
OnExitAfterError(j, code) ==
    /\ job[j].events = <<"error">>
    /\ job' = [job EXCEPT ![j] =
                  IF code = 0 THEN Cleanup(Event(@, "exit"))
                  ELSE Event(@, "exit")]

\* Lines 151-154: the callback of res.download.
DownloadDone(j) ==
    /\ job[j].stage = "sending"
    /\ job' = [job EXCEPT ![j] = Cleanup(@)]

\* What a call of cleanupWithRetry leaves: the disk, the request's record
\* (history: the calls so far and what was logged about the temp directory,
\* lines 301, 305 and 312) and the directory's content.  An rmSync that
\* throws may have removed part of the directory before.
Settled(r, call) ==
    [r EXCEPT !.attempts = @ + 1,
              !.log = @ \cup {l \in call.log : l[2] = "temp" /\ l[1] # "busy"},
              !.stage = IF call.retry THEN "timer" ELSE "done",
              !.retries = IF call.retry THEN RetriesLeft(@) ELSE @,
              !.delay = IF call.retry THEN 500 ELSE @]

Content(call, part) ==
    IF <<"cleaned", "temp">> \in call.log THEN << >>
    ELSE IF /\ part /\ tempDir # << >>
            /\ call.log \cap {<<"busy", "temp">>, <<"kept", "temp">>} # {}
         THEN Tail(tempDir)
    ELSE tempDir

Settle(j, call, part) ==
    /\ disk' = call.disk
    /\ job' = [job EXCEPT ![j] = Settled(@, call)]
    /\ tempDir' = Content(call, part)

\* The same with one more piece of history: what every call has logged.
SettleRecorded(j, call, part) ==
    /\ disk' = call.disk
    /\ job' = [job EXCEPT ![j] = [Settled(@, call) EXCEPT !.calls = Append(@, call.log)]]
    /\ tempDir' = Content(call, part)

\* Lines 271-273, 289, 309, 329: a timer fires and cleanupWithRetry runs.
\* The removals come to one of the given outcomes.
CleanupWithRetryOn(j, outcomes) ==
    /\ job[j].stage = "timer"
    /\ \E oi \in outcomes, ot \in outcomes, oo \in outcomes, part \in BOOLEAN :
          \E call \in {CleanupCall(disk, job[j], oi, ot, oo)} : Settle(j, call, part)

CleanupWithRetry(j) == CleanupWithRetryOn(j, Outcomes)

CleanupWithRetryRecorded(j) ==
    /\ job[j].stage = "timer"
    /\ \E oi \in Outcomes, ot \in Outcomes, oo \in Outcomes, part \in BOOLEAN :
          \E call \in {CleanupCall(disk, job[j], oi, ot, oo)} : SettleRecorded(j, call, part)

(***************************************************************************)
(* The server with one request and the worker it forks.                    *)
(***************************************************************************)
BaseDisk == [p \in {Uploads, Outputs, Elsewhere, Join(Elsewhere, OutputName(0))} |->
                IF p = Join(Elsewhere, OutputName(0)) THEN File ELSE Dir]

\* What an earlier run may have left: nothing; a temp folder with a snapshot
\* and an output file; links of those names to a directory and a file
\* elsewhere, old ones or ones the next request's names fall on; links to
\* nothing.
StaleDisk(kind, t) ==
    IF kind = "files"
    THEN [p \in DOMAIN BaseDisk \cup {Join(Uploads, TempName(t)),
                                      Join(Join(Uploads, TempName(t)), OutputName(t)),
                                      Join(Outputs, OutputName(t))} |->
            IF p \in DOMAIN BaseDisk THEN BaseDisk[p]
            ELSE IF p = Join(Uploads, TempName(t)) THEN Dir ELSE File]
    ELSE [p \in DOMAIN BaseDisk \cup {Join(Uploads, TempName(t)),
                                      Join(Outputs, OutputName(t))} |->
            IF p \in DOMAIN BaseDisk THEN BaseDisk[p]
            ELSE IF kind = "dangling" THEN Link(Join(Elsewhere, TempName(t)))
            ELSE IF p = Join(Uploads, TempName(t)) THEN Link(Elsewhere)
            ELSE Link(Join(Elsewhere, OutputName(0)))]

ServerDisks ==
    {BaseDisk, [p \in {Elsewhere} |-> Dir], StaleDisk("files", 0),
     StaleDisk("links", 0), StaleDisk("links", 1), StaleDisk("dangling", 0)}

InitServerOn(images, disks) ==
    /\ img \in images
    /\ disk \in disks
    /\ pc = "unforked"
    /\ argv = << << >>, << >>, << >> >>
    /\ now = 1
    /\ job = [j \in Jobs |-> NewJob]
    /\ uploadRoot = << >>
    /\ nm = NoNames
    /\ bg = White
    /\ canvas = << >>
    /\ idx = 0
    /\ tempDir = << >>
    /\ sent = << >>
    /\ fps = 10
    /\ exitCode = Undefined
    /\ frameStart = << >>
    /\ px = NoPixel

\* The server with a request to come, or the worker started by hand, with
\* or without its arguments.
InitServer == InitServerOn(ServerImages, ServerDisks) \/ InitOn(ServerImages)

ReceiveUpload ==
    /\ \E file \in ServedFiles : Upload(1, file)
    /\ UNCHANGED <<pc, argv, tempDir, now, uploadRoot, nm, workerVars>>

\* The handler, and the worker process it forks: child_process.fork with
\* the three paths as arguments (line 136).
HandleConvert ==
    /\ Convert(1)
    /\ IF job'[1].stage = "running"
       THEN /\ pc' = "start"
            /\ argv' = <<job'[1].inputPathAbs, job'[1].tempDir, job'[1].outputPath>>
       ELSE UNCHANGED <<pc, argv>>
    /\ UNCHANGED <<tempDir, now, uploadRoot, nm, workerVars>>

WorkerExit ==
    /\ pc = "exited"
    /\ OnExit(1, exitCode)
    /\ UNCHANGED <<pc, argv, tempDir, now, disk, uploadRoot, nm, workerVars>>

WorkerError ==
    /\ OnError(1)
    /\ UNCHANGED <<pc, argv, tempDir, now, disk, uploadRoot, nm, workerVars>>

DownloadSent ==
    /\ DownloadDone(1)
    /\ UNCHANGED <<pc, argv, tempDir, now, disk, uploadRoot, nm, workerVars>>

CleanupTimer ==
    /\ CleanupWithRetry(1)
    /\ UNCHANGED <<pc, argv, now, uploadRoot, nm, workerVars>>

CleanupTimerRecorded ==
    /\ CleanupWithRetryRecorded(1)
    /\ UNCHANGED <<pc, argv, now, uploadRoot, nm, workerVars>>

\* 'exit' of a worker that has emitted 'error'.
LateExit ==
    /\ \E code \in {0, 1} : OnExitAfterError(1, code)
    /\ UNCHANGED <<pc, argv, tempDir, now, disk, uploadRoot, nm, workerVars>>

\* The same server offered every kind of file.
InitUploads == InitServerOn(ServerImages, {BaseDisk})

OfferUpload ==
    /\ \E file \in UploadedFiles : Upload(1, file)
    /\ UNCHANGED <<pc, argv, tempDir, now, uploadRoot, nm, workerVars>>

(***************************************************************************)
(* The server with several requests in flight.  Each worker is reduced to  *)
(* what the server sees of it: its exit code, and the output file a        *)
(* successful run leaves; no removal of the cleanup fails.                 *)
(***************************************************************************)
MaxNow == 2

InitJobs == InitServerOn({Static}, {BaseDisk})

\* A millisecond passes.
Tick ==
    /\ now < MaxNow
    /\ now' = now + 1
    /\ UNCHANGED <<pc, argv, tempDir, job, disk, uploadRoot, nm, workerVars>>

AnyUpload ==
    /\ \E j \in Jobs, file \in ServedFiles : Upload(j, file)
    /\ UNCHANGED <<pc, argv, tempDir, now, uploadRoot, nm, workerVars>>

AnyConvert ==
    /\ \E j \in Jobs : Convert(j)
    /\ UNCHANGED <<pc, argv, tempDir, now, uploadRoot, nm, workerVars>>

AnyExit ==
    /\ \E j \in Jobs, code \in {0, 1} :
          /\ OnExit(j, code)
          /\ disk' = IF code = 0 THEN WriteFile(disk, job[j].outputPath) ELSE disk
    /\ UNCHANGED <<pc, argv, tempDir, now, uploadRoot, nm, workerVars>>

AnyError ==
    /\ \E j \in Jobs : OnError(j)
    /\ UNCHANGED <<pc, argv, tempDir, now, disk, uploadRoot, nm, workerVars>>

AnyDownloadSent ==
    /\ \E j \in Jobs : DownloadDone(j)
    /\ UNCHANGED <<pc, argv, tempDir, now, disk, uploadRoot, nm, workerVars>>

AnyCleanupTimer ==
    /\ \E j \in Jobs : CleanupWithRetryOn(j, {"ok"})
    /\ UNCHANGED <<pc, argv, now, uploadRoot, nm, workerVars>>

(***************************************************************************)
(* The file names on their own: i.toString().padStart(5, '0') of line 104  *)
(* for two frame indices, the second the larger.                           *)
(***************************************************************************)
FrameIndices == {0, 1, 9, 10, 11, 99, 100, 101, 9999, 10000, 99999, 100000, 100001}

WorkerAtRest ==
    /\ img = Static
    /\ bg = White
    /\ canvas = << >>
    /\ idx = 0
    /\ tempDir = << >>
    /\ sent = << >>
    /\ fps = 10
    /\ exitCode = Undefined
    /\ frameStart = << >>
    /\ px = NoPixel

InitNames ==
    /\ nm \in {[i |-> p[1], j |-> p[2], a |-> << >>, b |-> << >>, done |-> FALSE] :
                  p \in {q \in FrameIndices \X FrameIndices : q[1] < q[2]}}
    /\ pc = "names"
    /\ argv = WorkerArgv
    /\ now = 0
    /\ job = [j \in Jobs |-> NoJob]
    /\ disk = WorkerDisk
    /\ uploadRoot = Uploads
    /\ WorkerAtRest

\* Line 104, for frame i and for frame j.
NameStep ==
    /\ pc = "names"
    /\ ~nm.done
    /\ nm' = [nm EXCEPT !.a = FrameName(nm.i), !.b = FrameName(nm.j), !.done = TRUE]
    /\ UNCHANGED <<server, argv, disk, pc, img, bg, canvas, idx, tempDir, sent, fps,
                   exitCode, frameStart, px>>

Next ==
    \/ CheckArguments
    \/ Load \/ LoadFail \/ CopyStatic \/ CreateCanvas
    \/ GetFrameData \/ GetFrameDataFail \/ Composite
    \/ WriteSnapshot \/ WriteSnapshotFail \/ Dispose \/ Progress
    \/ RunFfmpeg \/ FfmpegEnd \/ FfmpegError

NextPixel == PixelStep

Spec == Init /\ [][Next]_vars

SpecTiming == InitTiming /\ [][Next]_vars

SpecPixel == InitPixel /\ [][NextPixel]_vars

\* The worker on every image of the compositing and of the frame-rate runs.
InitBoth == InitOn(Images \cup TimingImages)

SpecBoth == InitBoth /\ [][Next]_vars

SpecAlpha == InitAlpha /\ [][NextPixel]_vars

SpecScenario == InitScenario /\ [][Next]_vars

SpecProgress == InitProgress /\ [][Next]_vars

NextServer ==
    \/ Startup \/ ReceiveUpload \/ HandleConvert
    \/ CheckArguments
    \/ Load \/ LoadFail \/ CopyStatic \/ CreateCanvas
    \/ GetFrameData \/ GetFrameDataFail \/ Composite
    \/ WriteSnapshot \/ WriteSnapshotFail \/ Dispose \/ Progress
    \/ RunFfmpeg \/ FfmpegEnd \/ FfmpegError
    \/ WorkerExit \/ WorkerError \/ DownloadSent \/ CleanupTimer

SpecServer == InitServer /\ [][NextServer]_vars

\* The server with both events of a worker.
InitEvents == InitServerOn(ServerImages, {BaseDisk})

NextEvents == NextServer \/ LateExit

SpecEvents == InitEvents /\ [][NextEvents]_vars

\* The server with the log of every call of cleanupWithRetry kept.
InitCleanup == InitServerOn(ServerImages, {BaseDisk})

NextCleanup ==
    \/ Startup \/ ReceiveUpload \/ HandleConvert
    \/ CheckArguments
    \/ Load \/ LoadFail \/ CopyStatic \/ CreateCanvas
    \/ GetFrameData \/ GetFrameDataFail \/ Composite
    \/ WriteSnapshot \/ WriteSnapshotFail \/ Dispose \/ Progress
    \/ RunFfmpeg \/ FfmpegEnd \/ FfmpegError
    \/ WorkerExit \/ WorkerError \/ DownloadSent \/ CleanupTimerRecorded

SpecCleanup == InitCleanup /\ [][NextCleanup]_vars

NextUploads ==
    \/ Startup \/ OfferUpload \/ HandleConvert
    \/ CheckArguments
    \/ Load \/ LoadFail \/ CopyStatic \/ CreateCanvas
    \/ GetFrameData \/ GetFrameDataFail \/ Composite
    \/ WriteSnapshot \/ WriteSnapshotFail \/ Dispose \/ Progress
    \/ RunFfmpeg \/ FfmpegEnd \/ FfmpegError
    \/ WorkerExit \/ WorkerError \/ DownloadSent \/ CleanupTimer

SpecUploads == InitUploads /\ [][NextUploads]_vars

NextJobs ==
    \/ Startup \/ Tick \/ AnyUpload \/ AnyConvert \/ AnyExit \/ AnyError
    \/ AnyDownloadSent \/ AnyCleanupTimer

SpecJobs == InitJobs /\ [][NextJobs]_vars

\* The event loop runs every ready callback and every expired timer.
SpecServerFair ==
    /\ InitServer
    /\ [][NextServer]_vars
    /\ WF_vars(WorkerExit)
    /\ WF_vars(WorkerError)
    /\ WF_vars(DownloadSent)
    /\ WF_vars(CleanupTimer)

NextNames == NameStep

SpecNames == InitNames /\ [][NextNames]_vars

(***************************************************************************)
(* The claims.                                                             *)
(***************************************************************************)
Frames == img.anim.frames

Pixels == 0..(img.width * img.height - 1)

\* The offset as stored in the container; a missing one is 0.
StoredX(f) == IF f.x = Undefined THEN 0 ELSE f.x

StoredY(f) == IF f.y = Undefined THEN 0 ELSE f.y

\* The patch pixel indices k = y * fw + x of a frame.
PatchIndices(f) == 0..(f.width * f.height - 1)

\* Whether patch pixel k falls inside the canvas at (2 * ox + x, 2 * oy + y),
\* and the canvas pixel it then is.
Inside(f, k) ==
    /\ 2 * StoredX(f) + (k % f.width) < img.width
    /\ 2 * StoredY(f) + (k \div f.width) < img.height

Target(f, k) ==
    (2 * StoredY(f) + (k \div f.width)) * img.width + 2 * StoredX(f) + (k % f.width)

TopLeft(f) == 2 * StoredY(f) * img.width + 2 * StoredX(f)

\* The background-filled canvas.
Filled ==
    [p \in Pixels |-> IF img.anim.bgColor = Absent THEN White ELSE img.anim.bgColor]

\* What frame i (1-based) starts from when the frame before it left snapshot
\* prev: the filled canvas for the first frame, else prev with the region of
\* frame i - 1 cleared if that frame disposes.
StartOf(i, prev) ==
    IF i = 1 THEN Filled
    ELSE IF Frames[i - 1].dispose
         THEN ClearFrom(prev, Frames[i - 1], img.width, Filled[0], 0)
         ELSE prev

\* C1: an animated input of N frames gets its snapshots written in frame
\* order, snapshot i being the background-filled canvas with patches 0 .. i
\* applied in order and the dispose clear of every frame j < i applied between
\* snapshot j and patch j + 1; a run that reaches the encoder has written
\* exactly N of them.  (A snapshot is compared when it has just been written,
\* and all of them once more when the encoder has been started.)
C1_SnapshotsAreTheFold ==
    img.hasAnim =>
        /\ Len(tempDir) <= NumFrames
        /\ pc \in {"dispose", "progress"} => Len(tempDir) = idx + 1
        /\ pc \in {"getFrameData", "composite", "writeSnapshot"} => Len(tempDir) = idx
        /\ (pc \in {"fps", "ffmpeg"} \/ exitCode = 0) => Len(tempDir) = NumFrames
        /\ \A k \in (IF pc = "ffmpeg" THEN 1..Len(tempDir)
                     ELSE IF pc = "dispose" THEN {Len(tempDir)} ELSE {}) :
                  /\ tempDir[k].name = FrameName(k - 1)
                  /\ tempDir[k].data =
                         CompositeFrom(StartOf(k, IF k = 1 THEN Filled ELSE tempDir[k - 1].data),
                                       Frames[k], img.width, 0)

C1_Witness ==
    /\ img.hasAnim
    /\ pc = "ffmpeg"
    /\ Len(tempDir) = 2
    /\ Frames[1].dispose
    /\ ~Frames[2].dispose
    /\ Frames[2].blend
    /\ tempDir[2].data # tempDir[1].data

\* Frame k (1-based) disposes, its snapshot is written and the next frame has
\* not been composited yet.
Disposing(k) ==
    /\ k \in 1..Len(tempDir)
    /\ Frames[k].dispose = TRUE
    /\ \/ pc \in {"dispose", "progress"} /\ idx = k - 1
       \/ pc \in {"getFrameData", "composite"} /\ idx = k

\* C2: the snapshot of a frame with dispose = true still shows the patch as
\* composited (where the patch overwrites, the patch's own pixel), also once
\* the clear has run; it is the canvas as composited and not as cleared; and
\* the canvas the next frame starts from has the patch region reset to the
\* background colour.
C2_DisposeAfterSnapshot ==
    img.hasAnim =>
        \A k \in {idx, idx + 1} :
            Disposing(k) =>
                /\ \A j \in PatchIndices(Frames[k]) :
                      (/\ Inside(Frames[k], j)
                       /\ Frames[k].blend = FALSE \/ Frames[k].rgba[j][4] = 255)
                      => tempDir[k].data[Target(Frames[k], j)] = Frames[k].rgba[j]
                /\ pc = "progress"
                      => tempDir[k].data = CompositeFrom(frameStart, Frames[k], img.width, 0)
                /\ pc # "dispose"
                      => \A j \in PatchIndices(Frames[k]) :
                            Inside(Frames[k], j) => canvas[Target(Frames[k], j)] = bg

C2_Witness ==
    /\ img.hasAnim
    /\ pc = "getFrameData"
    /\ idx = 1
    /\ Frames[1].dispose
    /\ Frames[1].x = 0
    /\ tempDir[1].data[Target(Frames[1], 0)] = Palette[1]
    /\ canvas[Target(Frames[1], 0)] = bg
    /\ bg # Palette[1]

\* C3: patch pixel (x, y) of a patch stored at (ox, oy) lands on canvas pixel
\* (2 * ox + x, 2 * oy + y): after compositing, every such pixel inside the
\* canvas that the patch overwrites holds the patch's pixel (and, when the
\* patch does not run over the right edge, every one holds the pixel written
\* over the frame's starting value), nothing before the top-left pixel
\* (2 * ox, 2 * oy) has changed, and the dispose clear covers the same pixels.
C3_OffsetsAreDoubled ==
    img.hasAnim =>
        /\ pc = "writeSnapshot" =>
              LET f == Frames[idx + 1]
              IN  /\ \A k \in PatchIndices(f) :
                        Inside(f, k) =>
                            /\ (f.blend = FALSE \/ f.rgba[k][4] = 255)
                                  => canvas[Target(f, k)] = f.rgba[k]
                            /\ 2 * StoredX(f) + f.width <= img.width
                                  => canvas[Target(f, k)] =
                                         WritePixel(f.blend, f.rgba[k], frameStart[Target(f, k)])
                  /\ \A p \in Pixels : p < TopLeft(f) => canvas[p] = frameStart[p]
        /\ pc = "progress" /\ Frames[idx + 1].dispose = TRUE =>
              LET f == Frames[idx + 1]
              IN  /\ \A k \in PatchIndices(f) : Inside(f, k) => canvas[Target(f, k)] = bg
                  /\ \A p \in Pixels :
                        p < TopLeft(f) => canvas[p] = tempDir[idx + 1].data[p]

C3_Witness ==
    /\ img.hasAnim
    /\ pc = "writeSnapshot"
    /\ Frames[idx + 1].x = 1
    /\ Frames[idx + 1].blend = FALSE
    /\ canvas[2] = Frames[idx + 1].rgba[0]
    /\ frameStart[2] # canvas[2]
    /\ frameStart[1] = canvas[1]

\* C4: (255, 0, 0, 128) blended over (0, 0, 255, 255) stores alpha 255 and
\* red 128.
C4_WorkedExample ==
    (/\ px.done
     /\ px.blend
     /\ px.src = <<255, 0, 0, 128>>
     /\ px.dst = <<0, 0, 255, 255>>)
    => px.out[4] = 255 /\ px.out[1] = 128

C4_Witness ==
    /\ px.done
    /\ px.blend
    /\ px.src = <<255, 0, 0, 128>>
    /\ px.dst = <<0, 0, 255, 255>>
    /\ px.out # px.dst

SemiTransparent == px.done /\ px.blend /\ 0 < px.src[4] /\ px.src[4] < 255

\* The formulas with every division an integer division.
IntegerOutA(sa, da) == sa + (da * (255 - sa)) \div 255

IntegerOutC(sc, dc, sa, da) ==
    (sc * sa + (dc * da * (255 - sa)) \div 255) \div IntegerOutA(sa, da)

\* C5 as stated: for a semi-transparent source the stored values are those of
\* outA = sa + da*(255-sa)/255 and outC = (sc*sa + dc*da*(255-sa)/255)/outA
\* with every division truncating.
C5_EveryDivisionTruncates ==
    SemiTransparent =>
        /\ px.out[4] = IntegerOutA(px.src[4], px.dst[4])
        /\ \A c \in 1..3 :
              px.out[c] = IntegerOutC(px.src[c], px.dst[c], px.src[4], px.dst[4])

\* The exact quotient (sc*sa + dc*da*(255-sa)/255) / (sa + da*(255-sa)/255)
\* as a fraction of integers.
ExactNum(sc, dc, sa, da) == 255 * sc * sa + dc * da * (255 - sa)

ExactDen(sa, da) == 255 * sa + da * (255 - sa)

\* C5 as amended: only the final value of each channel is truncated.  The
\* stored alpha is sa + floor(da*(255-sa)/255); a stored colour is the floor
\* of the exact quotient, or one less where that quotient is an integer that
\* the double arithmetic falls just short of.
C5_OnlyTheResultTruncates ==
    SemiTransparent =>
        /\ px.out[4] = px.src[4] + (px.dst[4] * (255 - px.src[4])) \div 255
        /\ \A c \in 1..3 :
              LET n == ExactNum(px.src[c], px.dst[c], px.src[4], px.dst[4])
                  d == ExactDen(px.src[4], px.dst[4])
              IN  \/ px.out[c] = n \div d
                  \/ n % d = 0 /\ px.out[c] = n \div d - 1

C5_Witness ==
    /\ SemiTransparent
    /\ px.src = <<19, 128, 255, 1>>
    /\ px.dst = <<19, 128, 255, 1>>
    /\ px.out[1] = 18
    /\ px.out[3] = 255
    /\ px.out[4] = 1

\* C6: with blend = true an opaque source pixel leaves exactly what
\* blend = false leaves, in all four channels.
C6_OpaqueBlendIsOverwrite ==
    (px.done /\ px.blend /\ px.src[4] = 255) => px.out = CopyPixel(px.src, px.dst)

C6_Witness ==
    /\ px.done
    /\ px.blend
    /\ px.src[4] = 255
    /\ px.dst[4] = 128
    /\ px.out = px.src
    /\ px.out # px.dst

\* C7: with blend = true a fully transparent source pixel leaves the canvas
\* pixel as it was, whatever its own colour and the canvas pixel are.
C7_TransparentIsNoOp ==
    (px.done /\ px.blend /\ px.src[4] = 0) => px.out = px.dst

C7_Witness ==
    /\ px.done
    /\ px.blend
    /\ px.src = <<255, 0, 0, 0>>
    /\ px.dst = <<0, 0, 255, 128>>
    /\ px.out = px.dst

InByteRange(v) == \A c \in 1..4 : v[c] \in 0..255

\* C8: every value the semi-transparent branch assigns to a canvas byte is in
\* 0 .. 255, so the byte stored is the value assigned and not a wrapped one.
C8_ChannelsInRange ==
    SemiTransparent =>
        /\ InByteRange(Computed(px.src, px.dst))
        /\ px.out = Computed(px.src, px.dst)

C8_Witness ==
    /\ SemiTransparent
    /\ px.src = <<19, 128, 255, 254>>
    /\ px.dst = <<19, 128, 255, 255>>
    /\ px.out[3] = 255
    /\ px.out[4] = 255

\* C9: compositing and dispose change only canvas pixels inside the patch
\* region clipped to the canvas, and the buffer keeps its size.
C9_WritesStayInClippedRegion ==
    img.hasAnim =>
        /\ pc \in {"composite", "writeSnapshot", "dispose", "progress"}
              => DOMAIN canvas = Pixels
        /\ pc = "writeSnapshot" =>
              \A p \in Pixels :
                  canvas[p] # frameStart[p]
                      => \E k \in PatchIndices(Frames[idx + 1]) :
                            Inside(Frames[idx + 1], k) /\ Target(Frames[idx + 1], k) = p
        /\ pc = "progress" =>
              \A p \in Pixels :
                  canvas[p] # tempDir[idx + 1].data[p]
                      => \E k \in PatchIndices(Frames[idx + 1]) :
                            Inside(Frames[idx + 1], k) /\ Target(Frames[idx + 1], k) = p

\* C10: the frame rate handed to ffmpeg is round(1000 / d), halves up, for
\* d the first frame's delay, or 100 when that is 0 or missing; the delays of
\* the other frames play no part.
C10_FrameRateFromFirstDelay ==
    (img.hasAnim /\ pc = "ffmpeg") =>
        LET d0 == Frames[1].delay
            d  == IF d0 = Undefined \/ d0 = 0 THEN 100 ELSE d0
        IN  /\ 2 * d * fps <= 2000 + d
            /\ 2000 + d < 2 * d * fps + 2 * d
            /\ d0 \in {Undefined, 0, 100} => fps = 10
            /\ d0 = 40 => fps = 25

C10_Witness ==
    /\ img.hasAnim
    /\ pc = "ffmpeg"
    /\ Len(Frames) = 2
    /\ Frames[1].delay = 40
    /\ Frames[2].delay = 3000
    /\ fps = 25

\* C11: a non-animated input yields exactly one artifact, named 00000, whose
\* content is the whole source; no canvas is created, no frame is decoded,
\* composited or disposed, and the frame rate handed to ffmpeg is 10.
C11_StaticPath ==
    ~img.hasAnim =>
        /\ canvas = << >>
        /\ Frames = << >>
        /\ pc \in {"start", "load", "copyStatic", "fps", "ffmpeg", "exited"}
        /\ pc \in {"start", "load", "copyStatic"} => tempDir = << >>
        /\ pc \in {"fps", "ffmpeg"} \/ (pc = "exited" /\ exitCode = 0) =>
              tempDir = << [name |-> <<0, 0, 0, 0, 0>>, data |-> img.source] >>
        /\ pc = "exited" => Len(tempDir) <= 1
        /\ pc = "ffmpeg" \/ (pc = "exited" /\ tempDir # << >>) => fps = 10

C11_Witness == ~img.hasAnim /\ pc = "ffmpeg" /\ Len(tempDir) = 1 /\ fps = 10

\* The snapshots of the end-to-end scenario, written out pixel by pixel: the
\* square (2,2)-(3,3) of a 4 x 4 canvas is the pixels 10, 11, 14 and 15.
ScenarioSquare == {10, 11, 14, 15}

ScenarioSnapshot(k) ==
    [p \in 0..15 |->
        IF k = 0 \/ p \notin ScenarioSquare THEN <<255, 0, 0, 255>>
        ELSE IF k = 1 THEN <<0, 0, 255, 255>>
        ELSE <<0, 255, 0, 255>>]

\* C12: in the end-to-end scenario snapshot 0 is all red, snapshot 1 is red
\* with a blue 2 x 2 square at (2,2)-(3,3), and snapshot 2 is red with a
\* green 2 x 2 square at (2,2)-(3,3).
C12_EndToEndScenario ==
    img.kind = "scenario" =>
        \A k \in 1..Len(tempDir) :
            /\ tempDir[k].name = <<0, 0, 0, 0, k - 1>>
            /\ tempDir[k].data = ScenarioSnapshot(k - 1)

C12_Witness ==
    /\ img.kind = "scenario"
    /\ pc = "ffmpeg"
    /\ Len(tempDir) = 3
    /\ tempDir[2].data[10] = <<0, 0, 255, 255>>
    /\ tempDir[3].data[15] = <<0, 255, 0, 255>>

\* Strings compared as a sort or a glob by file name compares them: character
\* by character, a proper prefix first.
RECURSIVE LexLess(_, _)
LexLess(a, b) ==
    IF a = << >> THEN b # << >>
    ELSE IF b = << >> THEN FALSE
    ELSE IF Head(a) # Head(b) THEN Head(a) < Head(b)
    ELSE LexLess(Tail(a), Tail(b))

\* The number a decimal string reads as.
RECURSIVE ToNumber(_)
ToNumber(str) ==
    IF str = << >> THEN 0
    ELSE 10 * ToNumber(SubSeq(str, 1, Len(str) - 1)) + str[Len(str)]

\* C13: the identifier of a frame is its index as 5 zero-padded digits, so
\* for i < j the identifier of i sorts before that of j both as a string and
\* as a number, and the two differ.
C13_NamesAreFixedWidth ==
    nm.done =>
        /\ Len(nm.a) = 5 /\ Len(nm.b) = 5
        /\ ToNumber(nm.a) = nm.i /\ ToNumber(nm.b) = nm.j
        /\ LexLess(nm.a, nm.b)
        /\ ToNumber(nm.a) < ToNumber(nm.b)
        /\ nm.a # nm.b

\* C14: a frame whose decoding or snapshot write fails ends the worker with
\* code 1 at once: the step is not tried again, no further snapshot is
\* written, and ffmpeg is started only with every frame's snapshot written.
C14_FailureStopsTheWorker ==
    [][ /\ pc = "exited" => pc' = "exited" /\ tempDir' = tempDir /\ exitCode' = exitCode
        /\ pc \in {"getFrameData", "writeSnapshot"} /\ pc' = "exited" =>
              exitCode' = 1 /\ tempDir' = tempDir /\ Len(tempDir) = idx
        /\ pc = "getFrameData" /\ pc' # "exited" =>
              pc' = "composite" /\ Len(Frames') = idx + 1
        /\ pc = "writeSnapshot" /\ pc' # "exited" =>
              pc' = "dispose" /\ Len(tempDir') = idx + 1
        /\ pc' = "ffmpeg" /\ img.hasAnim => Len(tempDir') = NumFrames
      ]_vars

C14_Witness ==
    /\ img.hasAnim
    /\ pc = "exited"
    /\ exitCode = 1
    /\ Len(tempDir) >= 1
    /\ Len(tempDir) < NumFrames

\* An answer of status 500 and nothing else.
Failed500(j) == job[j].res = <<Status(500)>>

\* C15: a container that fails to load ends the worker with code 1 before any
\* frame is decoded: no snapshot is ever written, ffmpeg is never started,
\* and the server's answer to a worker that exited with code 1 is a 500 and
\* never the download.
C15_LoadFailureIsFatal ==
    [][ /\ pc = "load" /\ pc' = "exited" =>
              exitCode' = 1 /\ tempDir' = << >> /\ Frames' = << >> /\ canvas' = << >>
        /\ pc = "exited" /\ exitCode = 1 =>
              /\ pc' = "exited" /\ exitCode' = 1
              /\ Frames' = Frames
              /\ Len(tempDir') <= Len(tempDir)
              /\ job'[1].res = << >> \/ Failed500(1)'
              /\ job'[1].stage \in {"timer", "done"} => Failed500(1)'
      ]_vars

C15_Witness ==
    /\ img.hasAnim
    /\ pc = "exited"
    /\ exitCode = 1
    /\ canvas = << >>
    /\ Frames = << >>
    /\ tempDir = << >>
    /\ job[1].stage = "timer"
    /\ Failed500(1)

\* The worker of request 1 exited with a code other than 0 after it began
\* on the frames, and the server has not reacted yet.
Aborted ==
    /\ pc = "exited"
    /\ exitCode # 0
    /\ canvas # << >>
    /\ job[1].stage = "running"

\* The temp directory of request 1 and every snapshot in it are gone.
TempRemoved ==
    /\ job[1].tempDir # << >>
    /\ EntryKey(disk, job[1].tempDir) \notin DOMAIN disk
    /\ tempDir = << >>

\* C16 as claimed: after the worker exits non-zero, the temp directory with
\* the snapshots written so far is eventually removed by the cleanup.
C16_PartialOutputIsRemoved == Aborted ~> TempRemoved

\* C16: after the worker exits non-zero the cleanup eventually comes to its
\* end, and then the temp directory and its snapshots are gone unless the
\* path check rejected the directory or its removal failed for good, which
\* the cleanup logged.
C16_PartialOutputIsRemovedOrReported ==
    Aborted ~>
        /\ job[1].stage = "done"
        /\ <<"cleaned", "temp">> \in job[1].log => TempRemoved
        /\ TempRemoved \/ job[1].log \cap {<<"kept", "temp">>, <<"rejected", "temp">>} # {}

C16_Witness ==
    /\ pc = "exited"
    /\ exitCode = 1
    /\ img.hasAnim
    /\ canvas # << >>
    /\ idx >= 1
    /\ idx < NumFrames
    /\ job[1].stage = "done"
    /\ <<"cleaned", "temp">> \in job[1].log
    /\ TempRemoved

\* A request that holds files and has not come to its cleanup.
InFlight(j) == job[j].stage \in {"uploaded", "running", "spawning", "sending"}

\* C17: two requests in flight at the same time have different upload
\* files, different temp directories and different output paths.
C17_JobsHaveTheirOwnPaths ==
    \A j \in Jobs, k \in Jobs :
        j # k /\ InFlight(j) /\ InFlight(k) =>
            /\ job[j].file # job[k].file
            /\ job[j].tempDir # << >> /\ job[k].tempDir # << >> =>
                  /\ job[j].tempDir # job[k].tempDir
                  /\ job[j].outputPath # job[k].outputPath

\* C18: the worker exits with code 0 only out of ffmpeg's 'end', its output
\* written, and with code 1 on every other way out; the server answers a
\* worker's exit with the download if the code is 0 and with a 500 if not.
C18_ExitCodeDecidesTheResponse ==
    [][ /\ pc # "exited" /\ pc' = "exited" =>
              /\ exitCode' \in {0, 1}
              /\ exitCode' = 0 => pc = "ffmpeg" /\ ExistsSync(disk', argv[3])
              /\ pc # "ffmpeg" => exitCode' = 1
        /\ pc = "exited" /\ job'[1].res # job[1].res =>
              /\ job[1].res = << >>
              /\ exitCode = 0 => job'[1].res = <<Download>>
              /\ exitCode # 0 => Failed500(1)'
      ]_vars

C18_Witness ==
    /\ pc = "exited"
    /\ exitCode = 0
    /\ job[1].res = <<Download>>
    /\ job[1].stage = "sending"

\* C19: one cleanup() leads to at most 4 calls of cleanupWithRetry, the
\* first 100 ms after it and each further one 500 ms after the one before,
\* all counting down the same retries whichever of the three removals was
\* busy; and the cleanup comes to its end.
C19_CleanupRetriesAreBounded ==
    /\ [](\A j \in Jobs :
            /\ job[j].attempts <= 4
            /\ job[j].stage = "timer" =>
                  /\ job[j].retries = 3 - job[j].attempts
                  /\ job[j].retries >= 0
                  /\ job[j].delay = IF job[j].attempts = 0 THEN 100 ELSE 500)
    /\ (job[1].stage = "timer" ~> job[1].stage = "done")

C19_Witness ==
    /\ job[1].stage = "done"
    /\ job[1].attempts = 4
    /\ job[1].retries = 0

\* The paths a step removes, those below another removed path left out.
Removed ==
    {p \in DOMAIN disk \ DOMAIN disk' :
        \A q \in DOMAIN disk \ DOMAIN disk' : ~StartsWithDir(p, q)}

\* The directory an entry under uploads or outputs is to stay within.
Designated(p) == IF StartsWithDir(p, Uploads) THEN Uploads ELSE Outputs

\* C20: whatever the cleanup removes, at start-up or after a request, lies
\* under uploads or outputs and its real path resolves to that directory
\* or into it; a path that resolves elsewhere or not at all is not removed.
C20_OnlySafePathsAreDeleted ==
    [][ \A p \in Removed :
            /\ StartsWithDir(p, Uploads) \/ StartsWithDir(p, Outputs)
            /\ RealPath(disk, p).ok
            /\ \/ RealPath(disk, p).path = RealPath(disk, Designated(p)).path
               \/ StartsWithDir(RealPath(disk, p).path, RealPath(disk, Designated(p)).path)
      ]_vars

C20_Witness ==
    /\ job[1].stage = "done"
    /\ job[1].inputPathAbs \notin DOMAIN disk
    /\ <<"rejected", "temp">> \in job[1].log
    /\ job[1].tempDir \in DOMAIN disk
    /\ disk[job[1].tempDir].type = "link"
    /\ ~IsPathSafe(disk, job[1].tempDir, Uploads)

\* The frame the loop is at.
Current == Frames[idx + 1]

\* The patch lies inside the canvas.
FitsCanvas(f) ==
    /\ 2 * StoredX(f) + f.width <= img.width
    /\ 2 * StoredY(f) + f.height <= img.height

\* The canvas pixels of [2*ox, 2*ox + w) x [2*oy, 2*oy + h).
Region(f) ==
    {p \in Pixels :
        /\ p % img.width >= 2 * StoredX(f)
        /\ p % img.width < 2 * StoredX(f) + f.width
        /\ p \div img.width >= 2 * StoredY(f)
        /\ p \div img.width < 2 * StoredY(f) + f.height}

\* C22: compositing a frame with blend = false leaves every canvas pixel the
\* patch covers equal to the patch pixel written there, in all four channels,
\* whatever the canvas pixel was and whatever the patch pixel's alpha is.
C22_OverwriteCopiesAllChannels ==
    [][ pc = "composite" /\ Current.blend = FALSE =>
            \A k \in PatchIndices(Current) :
                Inside(Current, k) =>
                    \A ch \in 1..4 : canvas'[Target(Current, k)][ch] = Current.rgba[k][ch]
      ]_vars

C22_Witness ==
    /\ pc = "writeSnapshot"
    /\ Current.blend = FALSE
    /\ \E k \in PatchIndices(Current) :
          /\ Inside(Current, k)
          /\ Current.rgba[k][4] = 0
          /\ frameStart[Target(Current, k)][4] = 255
          /\ canvas[Target(Current, k)] = Current.rgba[k]

\* C23: a frame whose patch lies inside the canvas changes, by its
\* compositing and by its dispose clear, no pixel outside the rectangle
\* [2*ox, 2*ox + w) x [2*oy, 2*oy + h); with dispose = true the clear
\* leaves every pixel of the rectangle at the background colour.
C23_FrameStaysInItsRectangle ==
    [][ (pc = "composite" \/ pc = "dispose") /\ FitsCanvas(Current) =>
            /\ \A p \in Pixels \ Region(Current) : canvas'[p] = canvas[p]
            /\ pc = "dispose" /\ Current.dispose = TRUE =>
                  \A p \in Region(Current) : canvas'[p] = bg
      ]_vars

C23_Witness ==
    /\ pc = "progress"
    /\ FitsCanvas(Current)
    /\ Current.dispose = TRUE
    /\ Region(Current) # Pixels
    /\ \A p \in Region(Current) : canvas[p] = bg
    /\ \E p \in Pixels \ Region(Current) : canvas[p] # bg

\* C24: the canvas is created filled with the background colour, which is
\* the container's when it states one and opaque white when it does not, and
\* bg is that same value for as long as the worker runs.
C24_OneBackgroundColour ==
    [][ /\ pc = "createCanvas" =>
              /\ bg' = IF img.anim.bgColor = Absent THEN <<255, 255, 255, 255>>
                       ELSE img.anim.bgColor
              /\ \A p \in Pixels : canvas'[p] = bg'
        /\ pc # "createCanvas" => bg' = bg
      ]_vars

C24_Witness ==
    /\ pc = "getFrameData"
    /\ idx = 0
    /\ img.anim.bgColor = Absent
    /\ bg = <<255, 255, 255, 255>>
    /\ \A p \in Pixels : canvas[p] = bg

\* canvas.length
ByteLength(c) == 4 * Cardinality(DOMAIN c)

\* C27: from its creation to the last frame's snapshot the canvas buffer is
\* width * height * 4 bytes long, the pixels 0 .. width * height - 1, also
\* after a frame whose patch indexes past the end of the buffer.
C27_CanvasKeepsItsLength ==
    pc \in {"getFrameData", "composite", "writeSnapshot", "dispose", "progress"} =>
        /\ ByteLength(canvas) = img.width * img.height * 4
        /\ DOMAIN canvas = 0..(img.width * img.height - 1)

C27_Witness ==
    /\ pc = "progress"
    /\ Current.dispose = TRUE
    /\ \E k \in PatchIndices(Current) : Dest(Current, img.width, k) >= img.width * img.height
    /\ ByteLength(canvas) = img.width * img.height * 4

\* Frame 1 of the scenario has been disposed and frame 2 is not yet applied.
BetweenFrames1And2 ==
    /\ img.kind = "scenario"
    /\ \/ idx = 1 /\ pc = "progress"
       \/ idx = 2 /\ pc \in {"getFrameData", "composite"}

\* C29 as claimed: in the scenario, frame 1's dispose leaves the square
\* (2,2)-(3,3) all red before frame 2 is applied.
C29_DisposeRevertsToRed ==
    BetweenFrames1And2 => \A p \in ScenarioSquare : canvas[p] = <<255, 0, 0, 255>>

\* C29: in the scenario, frame 1's dispose leaves the square (2,2)-(3,3) at
\* the background colour, white, before frame 2 is applied, and the rest of
\* the canvas red.
C29_DisposeClearsToBackground ==
    BetweenFrames1And2 =>
        \A p \in Pixels :
            canvas[p] = IF p \in ScenarioSquare THEN <<255, 255, 255, 255>>
                        ELSE <<255, 0, 0, 255>>

C29_Witness ==
    /\ BetweenFrames1And2
    /\ pc = "composite"
    /\ bg = <<255, 255, 255, 255>>
    /\ Len(tempDir) = 2
    /\ \A p \in ScenarioSquare :
          /\ tempDir[2].data[p] = <<0, 0, 255, 255>>
          /\ canvas[p] = bg

\* C25: a snapshot, once written, keeps its content: no later step of the
\* worker, the dispose clear of its frame and the compositing of later
\* frames included, changes a snapshot written before.
C25_SnapshotsAreCopies ==
    [][ /\ Len(tempDir') >= Len(tempDir)
        /\ \A k \in 1..Len(tempDir) : tempDir'[k] = tempDir[k]
      ]_vars

C25_Witness ==
    /\ pc = "writeSnapshot"
    /\ idx = 1
    /\ Frames[1].dispose = TRUE
    /\ Len(tempDir) = 1
    /\ tempDir[1].data # canvas
    /\ tempDir[1].data = CompositeFrom(Filled, Frames[1], img.width, 0)

\* C26: frame i's snapshot is in the temp directory before frame i's dispose
\* clear runs; frames 0 .. i-1 have theirs, and no more, before frame i is
\* decoded or composited; ffmpeg is started only with the snapshots of all N
\* frames written, and none is written while it runs.
C26_WritesFinishBeforeTheNextStep ==
    [][ /\ pc = "dispose" =>
              Len(tempDir) = idx + 1 /\ tempDir[idx + 1].name = FrameName(idx)
        /\ (pc = "getFrameData" \/ pc = "composite") => Len(tempDir) = idx
        /\ pc = "fps" /\ pc' = "ffmpeg" /\ img.hasAnim => Len(tempDir) = NumFrames
        /\ pc = "ffmpeg" => tempDir' = tempDir
      ]_vars

C26_Witness ==
    /\ pc = "ffmpeg"
    /\ img.hasAnim
    /\ NumFrames = MaxFrames
    /\ Len(tempDir) = NumFrames
    /\ \A k \in 1..NumFrames : tempDir[k].name = FrameName(k - 1)

\* C28: the forked worker sends a progress message after frame i exactly
\* when i mod 50 = 0 or i = N - 1, and the worker started by hand sends
\* none; a message carries frame i + 1 of N, so the messages come in
\* increasing frame order and the last one of a run that got through its
\* frames says N of N, 100%; the step that sends leaves the canvas and the
\* snapshots as they are.
C28_ProgressEveryFiftyAndLast ==
    /\ [](/\ \A a \in 1..Len(sent), b \in 1..Len(sent) :
                a < b => sent[a].frame < sent[b].frame
          /\ (pc \in {"fps", "ffmpeg"} /\ img.hasAnim /\ ProcessSend) =>
                sent[Len(sent)] = [value |-> 100, frame |-> NumFrames, total |-> NumFrames])
    /\ [][ /\ pc = "progress" =>
                 /\ sent' # sent <=> ProcessSend /\ (idx % 50 = 0 \/ idx = NumFrames - 1)
                 /\ sent' # sent =>
                       /\ Len(sent') = Len(sent) + 1
                       /\ SubSeq(sent', 1, Len(sent)) = sent
                       /\ sent'[Len(sent')].frame = idx + 1
                       /\ sent'[Len(sent')].total = NumFrames
                 /\ tempDir' = tempDir
                 /\ canvas' = canvas
           /\ pc # "progress" => sent' = sent
         ]_vars

C28_Witness ==
    /\ pc = "ffmpeg"
    /\ NumFrames = 52
    /\ Len(tempDir) = 52
    /\ sent = << [value |-> 2, frame |-> 1, total |-> 52],
                 [value |-> 98, frame |-> 51, total |-> 52],
                 [value |-> 100, frame |-> 52, total |-> 52] >>

\* The spellings of .webp among the names offered.
WebpSpellings == {".webp", ".WEBP", ".WebP"}

\* The last part of a name that has more than one part.
Extension(name) == IF Len(name) > 1 THEN name[Len(name)] ELSE ""

\* C21: fileFilter accepts an uploaded file exactly when its MIME type is
\* image/webp and the extension of its original name is .webp in some
\* spelling of upper and lower case; a refused file is not stored, its
\* request is answered with an error and never gets a worker, and a request
\* that gets one carries an accepted file.
C21_OnlyWebpIsAccepted ==
    \A j \in Jobs :
        /\ job[j].verdict # "" =>
              (job[j].verdict = "accepted" <=>
                  /\ job[j].upload.mimetype = "image/webp"
                  /\ Extension(job[j].upload.originalname) \in WebpSpellings)
        /\ job[j].verdict = "rejected" =>
              /\ job[j].stage = "done"
              /\ job[j].res = <<Status(400)>>
              /\ job[j].file = << >>
              /\ job[j].tempDir = << >>
              /\ j = 1 => pc = "unforked"
        /\ job[j].stage \in {"uploaded", "running", "spawning", "sending"} =>
              job[j].verdict = "accepted"

C21_Witness ==
    /\ job[1].verdict = "rejected"
    /\ job[1].upload.mimetype = "image/webp"
    /\ job[1].upload.originalname = <<"a", ".webp", ".png">>
    /\ job[1].res = <<Status(400)>>
    /\ DOMAIN disk = DOMAIN BaseDisk

\* The input file, temp directory and output file of the request.
Resources == {job[1].inputPathAbs, job[1].tempDir, job[1].outputPath} \ {<< >>}

\* C30: the step that sets the cleanup timer of a request finds or makes a
\* response of that request; when the response is the download, the step is
\* the callback of res.download and nothing else, so the timer is set only
\* once the transfer has ended; and until the timer is set no step removes
\* the request's input file, temp directory or output file, in particular
\* not while the download is being sent.
C30_CleanupFollowsTheResponse ==
    [][ /\ (job[1].stage # "timer" /\ job'[1].stage = "timer") =>
              /\ job'[1].res # << >>
              /\ job'[1].res[Len(job'[1].res)] = Download =>
                    /\ job[1].stage = "sending"
                    /\ job'[1].res = job[1].res
        /\ job[1].stage \in {"running", "spawning", "sending"} =>
              \A p \in Resources : ExistsSync(disk, p) => ExistsSync(disk', p)
      ]_vars

C30_Witness ==
    /\ exitCode = 0
    /\ job[1].res = <<Download>>
    /\ job[1].stage = "done"
    /\ job[1].attempts = 1
    /\ \A p \in Resources : ~ExistsSync(disk, p)
    /\ Cardinality(Resources) = 3

\* The request got as far as the try block of lines 129-174.
Converting(j) == job[j].outputPath # << >>

\* C31: a request that reaches the fork is answered once and has cleanup()
\* called once, whichever of the worker's 'error' and 'exit' listeners run
\* and in whatever order.
C31_OneResponseOneCleanup ==
    \A j \in Jobs :
        Converting(j) /\ job[j].stage \in {"timer", "done"} =>
            /\ Len(job[j].res) = 1
            /\ job[j].cleanups = 1

\* C32: the frame rate the worker hands to the encoder is an integer of at
\* least 1, whatever the delay of the first frame.
C32_FrameRateIsPositive ==
    pc = "ffmpeg" => fps \in Nat \ {0}

\* The integer n as a double.
Whole(n) == <<n, 0, 0, 0>>

\* C33: for a source alpha 0 < sa < 255 the outA of line 90 is at least sa
\* and above 0 for every canvas alpha, so the guard of line 93 passes and the
\* four bytes of the canvas pixel are the computed ones.
C33_GuardAlwaysPasses ==
    SemiTransparent =>
        /\ BigLeq(Whole(px.src[4]), OutA(px.src[4], px.dst[4]))
        /\ Positive(OutA(px.src[4], px.dst[4]))
        /\ px.out = Computed(px.src, px.dst)
        /\ px.out[4] >= px.src[4]

C33_Witness ==
    /\ SemiTransparent
    /\ px.src[4] = 1
    /\ px.dst[4] = 0
    /\ OutA(1, 0) = Whole(1)
    /\ px.out = <<255, 0, 0, 1>>

\* C34: a pixel written with blend = true never leaves a canvas alpha below
\* the one it found, for every source alpha and every canvas alpha, and an
\* opaque canvas pixel stays opaque.
C34_BlendKeepsOrRaisesAlpha ==
    (px.done /\ px.blend) =>
        /\ px.out[4] >= px.dst[4]
        /\ px.dst[4] = 255 => px.out[4] = 255

C34_Witness ==
    /\ px.done
    /\ px.blend
    /\ px.src[4] = 1
    /\ px.dst[4] = 255
    /\ px.out[4] = 255
    /\ px.out # px.dst

\* The three resources of a call in the order of its blocks, with the
\* directory each has to be in.
CleanupOrder == <<"input", "temp", "output">>

ResourcePath(k) ==
    IF k = 1 THEN job[1].inputPathAbs ELSE IF k = 2 THEN job[1].tempDir ELSE job[1].outputPath

ResourceDir(k) == IF k = 1 THEN uploadRoot ELSE IF k = 2 THEN Uploads ELSE Outputs

\* What a call logged about its k-th resource: a removal was tried.
Tried(log, k) ==
    \E o \in {"cleaned", "kept", "busy"} : <<o, CleanupOrder[k]>> \in log

\* C35: in a call of cleanupWithRetry only a scheduled retry (EBUSY with
\* retries left) ends the call early: after a removal that failed otherwise
\* the call goes on, so every resource that is there and allowed has its
\* removal tried unless an earlier block scheduled a retry; a resource that
\* is not there any more has no removal tried, and no resource is removed
\* in one call and tried again in a later one.
C35_FailureDoesNotStopTheCall ==
    /\ [](\A a \in 1..Len(job[1].calls), b \in 1..Len(job[1].calls), k \in 1..3 :
             (a < b /\ <<"cleaned", CleanupOrder[k]>> \in job[1].calls[a])
                 => ~Tried(job[1].calls[b], k))
    /\ [][ Len(job'[1].calls) > Len(job[1].calls) =>
             \A k \in 1..3 :
                 Tried(job'[1].calls[Len(job'[1].calls)], k) <=>
                     /\ ResourcePath(k) # << >>
                     /\ ExistsSync(disk, ResourcePath(k))
                     /\ IsPathSafe(disk, ResourcePath(k), ResourceDir(k))
                     /\ \A h \in 1..(k - 1) :
                           <<"busy", CleanupOrder[h]>>
                               \notin job'[1].calls[Len(job'[1].calls)]
         ]_vars

C35_Witness ==
    /\ job[1].stage = "done"
    /\ job[1].calls = << {<<"cleaned", "input">>, <<"busy", "temp">>},
                         {<<"rejected", "input">>, <<"kept", "temp">>,
                          <<"cleaned", "output">>} >>
    /\ ~ExistsSync(disk, job[1].inputPathAbs)
    /\ ExistsSync(disk, job[1].tempDir)
    /\ ~ExistsSync(disk, job[1].outputPath)

(***************************************************************************)
(* server.js (lines 462-611): the conversion as the earlier server ran it   *)
(* inside the request handler, as functions of the decoded image.  Buffers  *)
(* and numbers behave as in the worker (Store, FlDiv255, FlAddInt,          *)
(* FlDivTrunc, ToInt32, ToUint8).                                           *)
(***************************************************************************)

\* Line 482: (img.anim && img.anim.bgColor) ? img.anim.bgColor : [255, 255, 255, 255]
InProcessBg(image) ==
    IF image.anim.bgColor = Absent THEN <<255, 255, 255, 255>> ELSE image.anim.bgColor

\* Lines 486-493: the canvas, every pixel set to bg.
InProcessCanvas(image) ==
    [i \in 0..(image.width * image.height - 1) |-> InProcessBg(image)]

\* Lines 501-502: (fmeta.x || 0) * 2, (fmeta.y || 0) * 2
InProcessX0(fmeta) == (IF fmeta.x = Undefined THEN 0 ELSE fmeta.x) * 2

InProcessY0(fmeta) == (IF fmeta.y = Undefined THEN 0 ELSE fmeta.y) * 2

\* Lines 512, 526: di = ((y0 + y) * width + (x0 + x)) * 4
InProcessDi(fmeta, width, x, y) ==
    ((InProcessY0(fmeta) + y) * width + (InProcessX0(fmeta) + x)) * 4

\* Lines 537-549: the semi-transparent branch on one pixel.
InProcessBlendSemi(s, d) ==
    LET sa   == s[4]
        da   == d[4]
        outA == FlAddInt(sa, FlDiv255(da * (255 - sa)))
        c(n) == ToUint8(FlDivTrunc(FlAddInt(s[n] * sa, FlDiv255(d[n] * da * (255 - sa))),
                                   outA))
    IN  IF outA # Zero THEN <<c(1), c(2), c(3), ToUint8(ToInt32(outA))>> ELSE d

\* Lines 507-553: what the loops leave in the canvas pixel d for the patch
\* pixel s.
InProcessPixel(blend, s, d) ==
    IF blend = FALSE THEN <<s[1], s[2], s[3], s[4]>>
    ELSE IF s[4] = 255 THEN <<s[1], s[2], s[3], 255>>
    ELSE IF s[4] = 0 THEN d
    ELSE InProcessBlendSemi(s, d)

\* Lines 507-553: the loops over y and x, from patch pixel k = y * fw + x on.
\* A pixel past the end of the Buffer is not stored; the blend reads
\* undefined there and stores nothing either.
RECURSIVE InProcessLoop(_, _, _, _)
InProcessLoop(c, fmeta, width, k) ==
    IF k >= fmeta.width * fmeta.height THEN c
    ELSE LET di == InProcessDi(fmeta, width, k % fmeta.width, k \div fmeta.width) \div 4
         IN  InProcessLoop(
                 IF di \in DOMAIN c
                 THEN [c EXCEPT ![di] = InProcessPixel(fmeta.blend, fmeta.rgba[k], c[di])]
                 ELSE c,
                 fmeta, width, k + 1)

\* Lines 569-580: p = (y0 + y) * width * 4 + x0 * 4 + x * 4 is set to bg.
RECURSIVE InProcessClear(_, _, _, _, _)
InProcessClear(c, fmeta, width, colour, k) ==
    IF fmeta.dispose # TRUE \/ k >= fmeta.width * fmeta.height THEN c
    ELSE LET p == ((InProcessY0(fmeta) + (k \div fmeta.width)) * width * 4
                      + InProcessX0(fmeta) * 4 + (k % fmeta.width) * 4) \div 4
         IN  InProcessClear(IF p \in DOMAIN c THEN [c EXCEPT ![p] = colour] ELSE c,
                            fmeta, width, colour, k + 1)

\* Lines 555, 565: frame_<i.toString().padStart(5, '0')>.png
InProcessName(i) == PadStart(ToString(i), 5, 0)

\* Lines 497-586: the snapshot of frame n (from 1) is the canvas after the
\* loops of that frame, which start from the filled canvas or from the
\* canvas of the frame before, its rectangle cleared if it disposes.
InProcessFrame(image, before, n) ==
    [name |-> InProcessName(n - 1),
     data |-> InProcessLoop(
                  IF n = 1 THEN InProcessCanvas(image)
                  ELSE InProcessClear(before[n - 1].data, image.anim.frames[n - 1],
                                      image.width, InProcessBg(image), 0),
                  image.anim.frames[n], image.width, 0)]

\* Lines 475-477 and 497-586: the files in tempDir after n steps, the copy
\* of a still image or the snapshots of n frames.
RECURSIVE InProcessSnapshots(_, _)
InProcessSnapshots(image, n) ==
    IF n = 0 THEN << >>
    ELSE IF ~image.hasAnim THEN << [name |-> <<0, 0, 0, 0, 0>>, data |-> image.source] >>
    ELSE CHOOSE files \in {Append(before, InProcessFrame(image, before, n)) :
                             before \in {InProcessSnapshots(image, n - 1)}} : TRUE

\* Lines 477, 497: one file for a still image, img.frames.length otherwise.
InProcessCount(image) == IF ~image.hasAnim THEN 1 ELSE image.length

\* Lines 594-598 and 610: the frame rate handed to ffmpeg.
InProcessFps(image) ==
    IF image.hasAnim /\ Len(image.anim.frames) > 0
    THEN LET avgDelay == IF image.anim.frames[1].delay \in {Undefined, 0} THEN 100
                         ELSE image.anim.frames[1].delay
         IN  (2000 + avgDelay) \div (2 * avgDelay)
    ELSE 10

\* C36: whatever the worker has written is what the in-process pipeline
\* writes for the same decoded frames, file by file with the same names and
\* content (compared after every write and when the encoder is started), and
\* when the encoder is started both have written the same number of files
\* and hand over the same frame rate.
C36_WorkerMatchesInProcess ==
    /\ pc \in {"dispose", "fps", "ffmpeg"} => tempDir = InProcessSnapshots(img, Len(tempDir))
    /\ pc = "ffmpeg" =>
          /\ Len(tempDir) = InProcessCount(img)
          /\ fps = InProcessFps(img)

C36_Witness ==
    /\ pc = "ffmpeg"
    /\ img.hasAnim
    /\ img.kind = "patches"
    /\ Len(tempDir) = 2
    /\ Frames[1].blend /\ Frames[1].dispose = TRUE /\ Frames[1].x = 1
    /\ Frames[2].blend /\ Frames[2].x = 0
    /\ tempDir = InProcessSnapshots(img, 2)
    /\ tempDir[1].data # tempDir[2].data
    /\ fps = InProcessFps(img)

====
